---------------------------- MODULE Spec2Model ----------------------------
(***************************************************************************)
(* Model of the shot time-series pipeline of py_met_viewer:                *)
(*   src/shot_viewer.py  safe_get, infer_time_scale, ShotData,             *)
(*                       align_yaxis_zero, FileSettingsDialog,             *)
(*                       StyleDialog, ShotViewerFrame (file slots, field   *)
(*                       checkboxes, compare mode, _update_plot, hover,    *)
(*                       session save and load)                            *)
(*   src/plot_met.py     _safe_get, _infer_time_scale_ms_to_s,             *)
(*                       load_shot_json, build_series, _align_yaxis_zero   *)
(*                                                                         *)
(* Numbers.  A JSON number or a Python float is modelled in fixed point:   *)
(* a raw value is an integer count of tenths (9.0 is 90, 0.1 is 1, 100 is  *)
(* 1000).  A time multiplier is an integer count of thousandths (1.0 is    *)
(* 1000, 1.0/1000.0 is 1).  An elapsed time, the product of a raw          *)
(* difference and a multiplier, is therefore an integer count of 1/10000 s *)
(* (0.1 s is 1000).  Arithmetic is exact; the numbers of the model are the *)
(* finite values a float represents, float("nan") is the separate value    *)
(* NaN.  The y limits of the axes are the exception: the aligner divides   *)
(* and multiplies them, and they are modelled as binary64 values with the  *)
(* rounding of every operation (see "Python floats" below).                *)
(***************************************************************************)
EXTENDS Integers, Sequences, FiniteSets, TLC

VARIABLES doc, shot, res, ax, twin, frame, dlg

vars == <<doc, shot, res, ax, twin, frame, dlg>>

---------------------------------------------------------------------------
(* Python / JSON values.  Every value is a record of the same shape:       *)
(*   k    the Python type: "float" (an int or a float), "nan"              *)
(*        (float("nan")), "str", "NoneType", "bool", "list", "dict"        *)
(*   n    the number carried by a float (tenths) or a bool (0 / 1)         *)
(*   s    the text of a str                                                *)
(*   sub  the items of a dict (a function from its keys to values) or the  *)
(*        elements of a list (a sequence of values)                        *)

NoItems == [x \in {} |-> 0]

Num(n) == [k |-> "float", n |-> n, s |-> "", sub |-> NoItems]

NaN == [k |-> "nan", n |-> 0, s |-> "", sub |-> NoItems]

Str(s) == [k |-> "str", n |-> 0, s |-> s, sub |-> NoItems]

None == [k |-> "NoneType", n |-> 0, s |-> "", sub |-> NoItems]

Bool(b) == [k |-> "bool", n |-> IF b THEN 10 ELSE 0, s |-> "", sub |-> NoItems]

List(elems) == [k |-> "list", n |-> 0, s |-> "", sub |-> elems]

Dict(items) == [k |-> "dict", n |-> 0, s |-> "", sub |-> items]

(* A key that a dict literal leaves out.                                   *)
Absent == [k |-> "absent", n |-> 0, s |-> "", sub |-> NoItems]

Item(key, v) == IF v = Absent THEN NoItems ELSE key :> v

(* The outcome of a call: the exception it raised, or "none" and a value.  *)
Ok(v) == [exc |-> "none", val |-> v]

Raise(e) == [exc |-> e, val |-> None]

(* A list comprehension, from the outcomes of its element expressions in   *)
(* order: the list of the values, or the first exception.                  *)
Comprehension(outs) ==
  LET bad == {i \in 1..Len(outs) : outs[i].exc # "none"}
  IN  IF bad = {} THEN Ok([i \in 1..Len(outs) |-> outs[i].val])
      ELSE Raise(outs[CHOOSE i \in bad : \A j \in bad : i <= j].exc)

---------------------------------------------------------------------------
(* Python primitives the pipeline uses, with the exceptions they raise.    *)

(* isinstance(cur, dict) *)
IsDict(cur) == cur.k = "dict"

(* key in cur, for a str key: membership in a dict or a list, substring    *)
(* test in a str (the strs of the model contain no key unless equal to     *)
(* it), TypeError for a value that is not iterable.                        *)
In(key, cur) ==
  CASE cur.k = "dict" -> Ok(key \in DOMAIN cur.sub)
    [] cur.k = "list" -> Ok(\E i \in DOMAIN cur.sub : cur.sub[i] = Str(key))
    [] cur.k = "str"  -> Ok(key = cur.s)
    [] OTHER          -> Raise("TypeError")

(* cur[key], for a str key *)
GetItem(cur, key) ==
  CASE cur.k = "dict" -> IF key \in DOMAIN cur.sub THEN Ok(cur.sub[key])
                                                   ELSE Raise("KeyError")
    [] OTHER          -> Raise("TypeError")

(* cur.get(key, default): only a dict has the method *)
DictGet(cur, key, default) ==
  IF cur.k # "dict" THEN Raise("AttributeError")
  ELSE IF key \in DOMAIN cur.sub THEN Ok(cur.sub[key]) ELSE Ok(default)

(* float(text) for the strs of the model *)
ParseFloat(text) ==
  CASE text = "8.5" -> Ok(Num(85))
    [] OTHER        -> Raise("ValueError")

(* float(v) *)
Float(v) ==
  CASE v.k \in {"float", "bool"} -> Ok(Num(v.n))
    [] v.k = "nan"               -> Ok(NaN)
    [] v.k = "str"               -> ParseFloat(v.s)
    [] OTHER                     -> Raise("TypeError")

---------------------------------------------------------------------------
(* src/shot_viewer.py safe_get: walk the path from d and give the default  *)
(* as soon as the current node is not a dict or lacks the key.  The        *)
(* remaining keys of the loop are the path of the recursive call.  In      *)
(* `not isinstance(cur, dict) or k not in cur` the test `k in cur` is      *)
(* evaluated for a dict only.                                              *)

(* safe_get without the isinstance test *)
RECURSIVE safe_get_unguarded(_, _, _)
safe_get_unguarded(d, path, default) ==
  IF path = <<>> THEN Ok(d)
  ELSE LET has == In(Head(path), d)
       IN  IF has.exc # "none" THEN has
           ELSE IF ~has.val THEN Ok(default)
           ELSE LET cur == GetItem(d, Head(path))
                IN  IF cur.exc # "none" THEN cur
                    ELSE safe_get_unguarded(cur.val, Tail(path), default)

RECURSIVE safe_get(_, _, _)
safe_get(d, path, default) ==
  IF path = <<>> THEN Ok(d)
  ELSE IF ~IsDict(d) THEN Ok(default)
  ELSE LET has == In(Head(path), d)
       IN  IF has.exc # "none" THEN has
           ELSE IF ~has.val THEN Ok(default)
           ELSE LET cur == GetItem(d, Head(path))
                IN  IF cur.exc # "none" THEN cur
                    ELSE safe_get(cur.val, Tail(path), default)

(* src/plot_met.py _safe_get: the same code.                               *)
RECURSIVE _safe_get(_, _, _)
_safe_get(d, path, default) ==
  IF path = <<>> THEN Ok(d)
  ELSE IF ~IsDict(d) THEN Ok(default)
  ELSE LET has == In(Head(path), d)
       IN  IF has.exc # "none" THEN has
           ELSE IF ~has.val THEN Ok(default)
           ELSE LET cur == GetItem(d, Head(path))
                IN  IF cur.exc # "none" THEN cur
                    ELSE _safe_get(cur.val, Tail(path), default)

---------------------------------------------------------------------------
(* Time-scale inference.  times_raw is a sequence of raw times (tenths);   *)
(* the result is the multiplier in thousandths.                            *)

Abs(x) == IF x < 0 THEN -x ELSE x

(* the literal 5 of `med >= 5`, in tenths *)
MedThreshold == 50

(* the multipliers 1.0 / 1000.0 and 1.0, in thousandths *)
MilliScale == 1

UnitScale == 1000

(* sorted(deltas) *)
Sorted(seq) == SortSeq(seq, LAMBDA a, b : a < b)

(* infer_time_scale with `med > 5` *)
infer_time_scale_strict(times_raw) ==
  IF Len(times_raw) < 2 THEN UnitScale
  ELSE LET deltas0 == [i \in 1..(Len(times_raw) - 1) |->
                         Abs(times_raw[i + 1] - times_raw[i])]
           deltas  == SelectSeq(deltas0, LAMBDA d : d > 0)
       IN  IF deltas = <<>> THEN UnitScale
           ELSE LET deltas_sorted == Sorted(deltas)
                    med == deltas_sorted[(Len(deltas_sorted) \div 2) + 1]
                IN  IF med > MedThreshold THEN MilliScale ELSE UnitScale

(* infer_time_scale with the index (len - 1) // 2 *)
infer_time_scale_lower(times_raw) ==
  IF Len(times_raw) < 2 THEN UnitScale
  ELSE LET deltas0 == [i \in 1..(Len(times_raw) - 1) |->
                         Abs(times_raw[i + 1] - times_raw[i])]
           deltas  == SelectSeq(deltas0, LAMBDA d : d > 0)
       IN  IF deltas = <<>> THEN UnitScale
           ELSE LET deltas_sorted == Sorted(deltas)
                    med == deltas_sorted[((Len(deltas_sorted) - 1) \div 2) + 1]
                IN  IF med >= MedThreshold THEN MilliScale ELSE UnitScale

(* infer_time_scale that falls back to milliseconds *)
infer_time_scale_ms_fallback(times_raw) ==
  IF Len(times_raw) < 2 THEN MilliScale
  ELSE LET deltas0 == [i \in 1..(Len(times_raw) - 1) |->
                         Abs(times_raw[i + 1] - times_raw[i])]
           deltas  == SelectSeq(deltas0, LAMBDA d : d > 0)
       IN  IF deltas = <<>> THEN MilliScale
           ELSE LET deltas_sorted == Sorted(deltas)
                    med == deltas_sorted[(Len(deltas_sorted) \div 2) + 1]
                IN  IF med >= MedThreshold THEN MilliScale ELSE UnitScale

(* src/shot_viewer.py infer_time_scale *)
infer_time_scale(times_raw) ==
  IF Len(times_raw) < 2 THEN UnitScale
  ELSE LET deltas0 == [i \in 1..(Len(times_raw) - 1) |->
                         Abs(times_raw[i + 1] - times_raw[i])]
           deltas  == SelectSeq(deltas0, LAMBDA d : d > 0)
       IN  IF deltas = <<>> THEN UnitScale
           ELSE LET deltas_sorted == Sorted(deltas)
                    med == deltas_sorted[(Len(deltas_sorted) \div 2) + 1]
                IN  IF med >= MedThreshold THEN MilliScale ELSE UnitScale

(* src/plot_met.py _infer_time_scale_ms_to_s *)
_infer_time_scale_ms_to_s(times_raw) ==
  IF Len(times_raw) < 2 THEN UnitScale
  ELSE LET deltas0 == [i \in 1..(Len(times_raw) - 1) |->
                         Abs(times_raw[i + 1] - times_raw[i])]
           deltas  == SelectSeq(deltas0, LAMBDA d : d > 0)
       IN  IF deltas = <<>> THEN UnitScale
           ELSE LET deltas_sorted == Sorted(deltas)
                    med == deltas_sorted[(Len(deltas_sorted) \div 2) + 1]
                IN  IF med >= MedThreshold THEN MilliScale ELSE UnitScale

(* float(r.get("time", 0.0)) of one record *)
RawTime(r) ==
  LET got == DictGet(r, "time", Num(0))
  IN  IF got.exc # "none" THEN got ELSE Float(got.val)

(* [float(r.get("time", 0.0)) for r in records] as a sequence of numbers   *)
(* (the documents of the model hold no nan)                                *)
TimesRaw(records) ==
  LET out == Comprehension([i \in 1..Len(records) |-> RawTime(records[i])])
  IN  IF out.exc # "none" THEN out
      ELSE Ok([i \in 1..Len(records) |-> out.val[i].n])

(* Elapsed without the offset of the first sample *)
ElapsedFromZero(times_raw, scale) ==
  [i \in 1..Len(times_raw) |-> times_raw[i] * scale]

(* [(t - t0) * scale for t in times_raw], in 1/10000 s *)
Elapsed(times_raw, scale) ==
  LET t0 == IF times_raw # <<>> THEN times_raw[1] ELSE 0
  IN  [i \in 1..Len(times_raw) |-> (times_raw[i] - t0) * scale]

---------------------------------------------------------------------------
(* src/shot_viewer.py ShotData.__init__ and ShotData._load on the parsed   *)
(* document: the constructed shot, or the exception that leaves no shot.   *)

(* _load that leaves the inferred scale out of the elapsed times *)
_load_unscaled(document) ==
  LET data == GetItem(document, "data")
      times == TimesRaw(data.val.sub)
  IN  IF ~IsDict(document) \/ data.exc # "none" THEN Raise("ValueError")
      ELSE IF data.val.k # "list" THEN Raise("ValueError")
      ELSE IF times.exc # "none" THEN Raise(times.exc)
      ELSE Ok([profile_name |-> DictGet(document, "profile_name",
                                        Str("Unknown Profile")).val,
               shot_time    |-> DictGet(document, "time", None).val,
               records      |-> data.val.sub,
               time_s       |-> Elapsed(times.val, UnitScale)])

_load(document) ==
  LET has == In("data", document)
  IN  IF has.exc # "none" THEN Raise(has.exc)
      ELSE IF ~has.val THEN Raise("ValueError")
      ELSE LET data == GetItem(document, "data")
           IN  IF data.exc # "none" THEN Raise(data.exc)
               ELSE IF data.val.k # "list" THEN Raise("ValueError")
               ELSE LET profile == DictGet(document, "profile_name",
                                           Str("Unknown Profile"))
                        stime   == DictGet(document, "time", None)
                        records == data.val.sub
                        times   == TimesRaw(records)
                    IN  IF profile.exc # "none" THEN Raise(profile.exc)
                        ELSE IF stime.exc # "none" THEN Raise(stime.exc)
                        ELSE IF times.exc # "none" THEN Raise(times.exc)
                        ELSE Ok([profile_name |-> profile.val,
                                 shot_time    |-> stime.val,
                                 records      |-> records,
                                 time_s       |-> Elapsed(times.val,
                                                   infer_time_scale(times.val))])

(* Coerce with `except TypeError` *)
CoerceTypeErrorOnly(val) ==
  LET f == IF val # None THEN Float(val) ELSE Ok(NaN)
  IN  IF f.exc \in {"TypeError"} THEN Ok(NaN) ELSE f

(* the body of the try block of get_series, with its except clause *)
Coerce(val) ==
  LET f == IF val # None THEN Float(val) ELSE Ok(NaN)
  IN  IF f.exc \in {"TypeError", "ValueError"} THEN Ok(NaN) ELSE f

(* get_series that skips the records that lack the path *)
get_series_skipping(self, path) ==
  LET kept == SelectSeq(self.records,
                        LAMBDA r : safe_get(r, path, Absent).val # Absent)
  IN  Comprehension([i \in 1..Len(kept) |->
                      Coerce(safe_get(kept[i], path, NaN).val)])

(* src/shot_viewer.py ShotData.get_series *)
get_series(self, path) ==
  Comprehension([i \in 1..Len(self.records) |->
                  LET val == safe_get(self.records[i], path, NaN)
                  IN  IF val.exc # "none" THEN val ELSE Coerce(val.val)])

---------------------------------------------------------------------------
(* src/plot_met.py load_shot_json on the parsed document: the records, or  *)
(* the exception.                                                          *)

(* load_shot_json without the isinstance test on doc["data"] *)
load_shot_json_any_data(document) ==
  LET has == In("data", document)
  IN  IF has.exc # "none" THEN Raise(has.exc)
      ELSE IF ~has.val THEN Raise("ValueError")
      ELSE LET data == GetItem(document, "data")
           IN  IF data.exc # "none" THEN Raise(data.exc)
               ELSE Ok(data.val.sub)

load_shot_json(document) ==
  LET has == In("data", document)
  IN  IF has.exc # "none" THEN Raise(has.exc)
      ELSE IF ~has.val THEN Raise("ValueError")
      ELSE LET data == GetItem(document, "data")
           IN  IF data.exc # "none" THEN Raise(data.exc)
               ELSE IF data.val.k # "list" THEN Raise("ValueError")
               ELSE Ok(data.val.sub)

(* float(_safe_get(r, path)) of build_series: no try block around it *)
Actual(r, path) ==
  LET got == _safe_get(r, path, NaN)
  IN  IF got.exc # "none" THEN got ELSE Float(got.val)

(* float(sp[key]) if key in sp and sp[key] is not None else float("nan") *)
Goal(sp, key) ==
  LET has == In(key, sp)
  IN  IF has.exc # "none" THEN has
      ELSE IF has.val /\ sp.sub[key] # None THEN Float(sp.sub[key])
      ELSE Ok(NaN)

(* Goals that gives a sample to the goal named by `active` only *)
Goals_active_only(r) ==
  LET got == _safe_get(r, <<"shot", "setpoints">>, Dict(NoItems))
      sp  == IF got.exc = "none" /\ IsDict(got.val) THEN got.val
             ELSE Dict(NoItems)
      act == DictGet(sp, "active", None)
      gp  == IF act.val = Str("pressure") THEN Goal(sp, "pressure") ELSE Ok(NaN)
      gf  == IF act.val = Str("flow") THEN Goal(sp, "flow") ELSE Ok(NaN)
      gw  == IF act.val = Str("power") THEN Goal(sp, "power") ELSE Ok(NaN)
  IN  IF got.exc # "none" THEN got
      ELSE IF act.exc # "none" THEN act
      ELSE IF gp.exc # "none" THEN gp
      ELSE IF gf.exc # "none" THEN gf
      ELSE IF gw.exc # "none" THEN gw
      ELSE Ok([active |-> act.val, pressure |-> gp.val,
               flow |-> gf.val, power |-> gw.val])

(* one turn of the loop `for r in records` of build_series *)
Goals(r) ==
  LET got == _safe_get(r, <<"shot", "setpoints">>, Dict(NoItems))
      sp  == IF got.exc = "none" /\ IsDict(got.val) THEN got.val
             ELSE Dict(NoItems)
      act == DictGet(sp, "active", None)
      gp  == Goal(sp, "pressure")
      gf  == Goal(sp, "flow")
      gw  == Goal(sp, "power")
  IN  IF got.exc # "none" THEN got
      ELSE IF act.exc # "none" THEN act
      ELSE IF gp.exc # "none" THEN gp
      ELSE IF gf.exc # "none" THEN gf
      ELSE IF gw.exc # "none" THEN gw
      ELSE Ok([active |-> act.val, pressure |-> gp.val,
               flow |-> gf.val, power |-> gw.val])

(* src/plot_met.py build_series *)
build_series(records) ==
  LET times == TimesRaw(records)
      n           == Len(records)
      pressure    == Comprehension([i \in 1..n |->
                       Actual(records[i], <<"shot", "pressure">>)])
      flow        == Comprehension([i \in 1..n |->
                       Actual(records[i], <<"shot", "flow">>)])
      motor_speed == Comprehension([i \in 1..n |->
                       Actual(records[i], <<"sensors", "motor_speed">>)])
      motor_power == Comprehension([i \in 1..n |->
                       Actual(records[i], <<"sensors", "motor_power">>)])
      goals       == Comprehension([i \in 1..n |-> Goals(records[i])])
  IN  IF times.exc # "none" THEN Raise(times.exc)
      ELSE IF pressure.exc # "none" THEN Raise(pressure.exc)
      ELSE IF flow.exc # "none" THEN Raise(flow.exc)
      ELSE IF motor_speed.exc # "none" THEN Raise(motor_speed.exc)
      ELSE IF motor_power.exc # "none" THEN Raise(motor_power.exc)
      ELSE IF goals.exc # "none" THEN Raise(goals.exc)
      ELSE Ok([time_s        |-> Elapsed(times.val,
                                   _infer_time_scale_ms_to_s(times.val)),
               pressure      |-> pressure.val,
               flow          |-> flow.val,
               motor_speed   |-> motor_speed.val,
               motor_power   |-> motor_power.val,
               goal_pressure |-> [i \in 1..n |-> goals.val[i].pressure],
               goal_flow     |-> [i \in 1..n |-> goals.val[i].flow],
               goal_power    |-> [i \in 1..n |-> goals.val[i].power],
               active        |-> [i \in 1..n |-> goals.val[i].active]])

---------------------------------------------------------------------------
(* src/shot_viewer.py ShotViewerFrame._update_plot.get_trimmed_data.       *)
(* settings is the slot's settings dict: a function that is empty or maps  *)
(* "trim_duration" to a duration in 1/10000 s.  The loop leaves at the     *)
(* first sample whose time exceeds the duration; enumerate counts from 0.  *)

NoSettings == [x \in {} |-> 0]

TrimTo(duration) == "trim_duration" :> duration

(* get_trimmed_data with `t >= trim_duration` *)
get_trimmed_data_inclusive(self, settings) ==
  LET time_s == self.time_s
      trim_duration ==
        IF "trim_duration" \in DOMAIN settings THEN settings["trim_duration"]
        ELSE IF time_s # <<>> THEN time_s[Len(time_s)] ELSE 0
      over == {i \in 1..Len(time_s) : time_s[i] >= trim_duration}
  IN  IF over = {} THEN Len(time_s)
      ELSE (CHOOSE i \in over : \A j \in over : i <= j) - 1

get_trimmed_data(self, settings) ==
  LET time_s == self.time_s
      trim_duration ==
        IF "trim_duration" \in DOMAIN settings THEN settings["trim_duration"]
        ELSE IF time_s # <<>> THEN time_s[Len(time_s)] ELSE 0
      over == {i \in 1..Len(time_s) : time_s[i] > trim_duration}
  IN  IF over = {} THEN Len(time_s)
      ELSE (CHOOSE i \in over : \A j \in over : i <= j) - 1

---------------------------------------------------------------------------
(* Python floats as the aligner computes with them: IEEE 754 binary64,     *)
(* every operation rounded to the nearest value, ties to the even one.     *)
(* A float is zero, an infinity, or sgn * (b1.b2...b53 in base 2) * 2^exp  *)
(* with b1 = 1.  The limits of the model are far from the largest and the  *)
(* smallest exponent, so no operation overflows or underflows.             *)

(* significant bits of a binary64 value *)
Precision == 53

Zero == [sgn |-> 0, inf |-> FALSE, bits |-> <<>>, exp |-> 0]

(* float('inf') *)
Inf == [sgn |-> 1, inf |-> TRUE, bits |-> <<>>, exp |-> 0]

Neg(x) == [x EXCEPT !.sgn = -x.sgn]

IsFinite(x) == ~x.inf

(* the digits of the natural number n in base 2, the highest first *)
RECURSIVE Bin(_)
Bin(n) == IF n = 0 THEN <<>> ELSE Append(Bin(n \div 2), n % 2)

(* the natural number with the digits `bits` *)
RECURSIVE Nat2(_)
Nat2(bits) ==
  IF bits = <<>> THEN 0
  ELSE 2 * Nat2(SubSeq(bits, 1, Len(bits) - 1)) + bits[Len(bits)]

(* bits without its leading zeros *)
Strip(bits) ==
  LET ones == {i \in 1..Len(bits) : bits[i] = 1}
  IN  IF ones = {} THEN <<>>
      ELSE SubSeq(bits, CHOOSE i \in ones : \A j \in ones : i <= j, Len(bits))

(* bits, a number of Precision digits, plus one *)
Succ(bits) ==
  LET zeros == {i \in 1..Len(bits) : bits[i] = 0}
      last  == CHOOSE i \in zeros : \A j \in zeros : j <= i
  IN  [i \in 1..Len(bits) |->
         IF i < last THEN bits[i] ELSE IF i = last THEN 1 ELSE 0]

(* the float nearest to the positive number whose digits start with bits   *)
(* (bits[1] = 1, of weight 2^exp); sticky says that non-zero digits follow *)
(* the ones given                                                          *)
Round(bits, exp, sticky) ==
  IF Len(bits) <= Precision
  THEN [sgn |-> 1, inf |-> FALSE, exp |-> exp,
        bits |-> [i \in 1..Precision |-> IF i <= Len(bits) THEN bits[i] ELSE 0]]
  ELSE LET head == SubSeq(bits, 1, Precision)
           rest == sticky \/ \E i \in (Precision + 2)..Len(bits) : bits[i] = 1
           up   == bits[Precision + 1] = 1 /\ (rest \/ head[Precision] = 1)
       IN  IF ~up THEN [sgn |-> 1, inf |-> FALSE, exp |-> exp, bits |-> head]
           ELSE IF \A i \in 1..Precision : head[i] = 1
           THEN [sgn |-> 1, inf |-> FALSE, exp |-> exp + 1,
                 bits |-> [i \in 1..Precision |-> IF i = 1 THEN 1 ELSE 0]]
           ELSE [sgn |-> 1, inf |-> FALSE, exp |-> exp, bits |-> Succ(head)]

(* float(n) of an integer n *)
FromInt(n) ==
  IF n = 0 THEN Zero
  ELSE LET digits == Bin(IF n < 0 THEN -n ELSE n)
           mag    == Round(digits, Len(digits) - 1, FALSE)
       IN  [mag EXCEPT !.sgn = IF n < 0 THEN -1 ELSE 1]

(* x < y *)
Lt(x, y) ==
  LET below(a, b) ==
        \/ a.exp < b.exp
        \/ /\ a.exp = b.exp
           /\ \E i \in 1..Precision :
                /\ a.bits[i] < b.bits[i]
                /\ \A j \in 1..(i - 1) : a.bits[j] = b.bits[j]
  IN  IF x.sgn # y.sgn THEN x.sgn < y.sgn
      ELSE IF x.sgn = 0 THEN FALSE
      ELSE IF x.inf \/ y.inf THEN (IF x.sgn = 1 THEN ~x.inf /\ y.inf
                                                ELSE x.inf /\ ~y.inf)
      ELSE IF x.sgn = 1 THEN below(x, y) ELSE below(y, x)

Leq(x, y) == ~Lt(y, x)

(* min(x, y) and max(x, y) of Python: the first argument when neither is   *)
(* below the other                                                         *)
Min(x, y) == IF Lt(y, x) THEN y ELSE x

Max(x, y) == IF Lt(x, y) THEN y ELSE x

(* a positive finite y is odd * 2^shift: the aligner multiplies and        *)
(* divides by axis maxima only, which it never changes, so odd is a short  *)
(* number                                                                  *)
Odd(y) ==
  LET ones == {i \in 1..Precision : y.bits[i] = 1}
      last == CHOOSE i \in ones : \A j \in ones : j <= i
  IN  [odd |-> Nat2(SubSeq(y.bits, 1, last)), shift |-> y.exp + 1 - last]

(* digits with zeros before them, to the length width *)
Pad(digits, width) ==
  [i \in 1..width |->
     IF i <= width - Len(digits) THEN 0 ELSE digits[i - (width - Len(digits))]]

(* long multiplication and long division take this many digits in a step *)
Chunk == Precision \div 4

(* the digits of bits[1..i] * k + carry * 2^i, followed by acc: the digits *)
(* of bits * k, found from the lowest digit up                             *)
RECURSIVE Times(_, _, _, _, _)
Times(bits, k, i, carry, acc) ==
  IF i = 0 THEN Bin(carry) \o acc
  ELSE LET lo    == IF i > Chunk THEN i - Chunk + 1 ELSE 1
           width == i - lo + 1
           t     == Nat2(SubSeq(bits, lo, i)) * k + carry
       IN  Times(bits, k, lo - 1, t \div (2 ^ width),
                 Pad(Bin(t % (2 ^ width)), width) \o acc)

(* the first n digits of bits / k (n a multiple of Chunk) and the          *)
(* remainder left, by long division from digit i on                        *)
RECURSIVE Over(_, _, _, _, _, _)
Over(bits, k, n, i, rem, acc) ==
  IF i > n THEN [quot |-> acc, rem |-> rem]
  ELSE LET digits == [j \in 1..Chunk |->
                        IF i + j - 1 <= Len(bits) THEN bits[i + j - 1] ELSE 0]
           cur    == rem * (2 ^ Chunk) + Nat2(digits)
       IN  Over(bits, k, n, i + Chunk, cur % k,
                acc \o Pad(Bin(cur \div k), Chunk))

(* the float nearest to x * (f.odd * 2^f.shift), from the digits prod of   *)
(* x.bits * f.odd                                                          *)
Product(x, f, prod) ==
  [Round(prod, x.exp + (Len(prod) - Precision) + f.shift, FALSE)
     EXCEPT !.sgn = x.sgn]

MulOdd(x, f) == Product(x, f, Times(x.bits, f.odd, Precision, 0, <<>>))

(* x * y for a positive finite y *)
Mul(x, y) == IF x.sgn = 0 \/ x.inf THEN x ELSE MulOdd(x, Odd(y))

(* the float nearest to x / (f.odd * 2^f.shift), from the first n digits   *)
(* quot of x.bits / f.odd, leading zeros stripped, and the remainder       *)
Quotient(x, f, n, quot, rem) ==
  [Round(quot, x.exp - (n - Len(quot)) - f.shift, rem # 0) EXCEPT !.sgn = x.sgn]

DivDigits(x, f, n, d) == Quotient(x, f, n, Strip(d.quot), d.rem)

DivLong(x, f, n) == DivDigits(x, f, n, Over(x.bits, f.odd, n, 1, 0, <<>>))

DivOdd(x, f) ==
  DivLong(x, f, Chunk * ((Precision + Len(Bin(f.odd)) + 2) \div Chunk + 1))

(* x / y for a positive finite y *)
Div(x, y) == IF x.sgn = 0 \/ x.inf THEN x ELSE DivOdd(x, Odd(y))

---------------------------------------------------------------------------
(* src/shot_viewer.py align_yaxis_zero and src/plot_met.py                 *)
(* _align_yaxis_zero.  An axis is the pair <<bottom, top>> of its y        *)
(* limits, what get_ylim returns.  The outcome of a call is the limits it  *)
(* leaves on the two axes and the exception it ends with.                  *)

(* matplotlib Axes.set_ylim(bottom, top): the new limits of the axis; a    *)
(* limit that is not finite is refused with ValueError ("Axis limits       *)
(* cannot be NaN or Inf") and the axis keeps its limits                    *)
set_ylim(bottom, top) ==
  IF IsFinite(bottom) /\ IsFinite(top) THEN Ok(<<bottom, top>>)
  ELSE Raise("ValueError")

Aligned(ax1, ax2, exc) == [ax1 |-> ax1, ax2 |-> ax2, exc |-> exc]

(* align_yaxis_zero with min(ratio1, ratio2) as the target *)
align_yaxis_zero_smaller(ax1, ax2) ==
  LET y1_min == Min(ax1[1], Zero)
      y1_max == Max(ax1[2], Zero)
      y2_min == Min(ax2[1], Zero)
      y2_max == Max(ax2[2], Zero)
      ratio1 == IF Lt(Zero, y1_max) THEN Div(Neg(y1_min), y1_max) ELSE Inf
      ratio2 == IF Lt(Zero, y2_max) THEN Div(Neg(y2_min), y2_max) ELSE Inf
      target_ratio == Min(ratio1, ratio2)
      set1 == IF Lt(Zero, y1_max)
              THEN set_ylim(Neg(Mul(target_ratio, y1_max)), y1_max)
              ELSE Ok(ax1)
      set2 == IF Lt(Zero, y2_max)
              THEN set_ylim(Neg(Mul(target_ratio, y2_max)), y2_max)
              ELSE Ok(ax2)
  IN  IF y1_max = Zero /\ y2_max = Zero THEN Aligned(ax1, ax2, "none")
      ELSE IF y1_min = Zero /\ y2_min = Zero THEN Aligned(ax1, ax2, "none")
      ELSE IF set1.exc # "none" THEN Aligned(ax1, ax2, set1.exc)
      ELSE IF set2.exc # "none" THEN Aligned(set1.val, ax2, set2.exc)
      ELSE Aligned(set1.val, set2.val, "none")

(* align_yaxis_zero that leaves the widened limits on the axes when it     *)
(* returns early                                                           *)
align_yaxis_zero_widening(ax1, ax2) ==
  LET y1_min == Min(ax1[1], Zero)
      y1_max == Max(ax1[2], Zero)
      y2_min == Min(ax2[1], Zero)
      y2_max == Max(ax2[2], Zero)
      ratio1 == IF Lt(Zero, y1_max) THEN Div(Neg(y1_min), y1_max) ELSE Inf
      ratio2 == IF Lt(Zero, y2_max) THEN Div(Neg(y2_min), y2_max) ELSE Inf
      target_ratio == Max(ratio1, ratio2)
      set1 == IF Lt(Zero, y1_max)
              THEN set_ylim(Neg(Mul(target_ratio, y1_max)), y1_max)
              ELSE Ok(ax1)
      set2 == IF Lt(Zero, y2_max)
              THEN set_ylim(Neg(Mul(target_ratio, y2_max)), y2_max)
              ELSE Ok(ax2)
  IN  IF y1_max = Zero /\ y2_max = Zero
      THEN Aligned(<<y1_min, y1_max>>, <<y2_min, y2_max>>, "none")
      ELSE IF y1_min = Zero /\ y2_min = Zero
      THEN Aligned(<<y1_min, y1_max>>, <<y2_min, y2_max>>, "none")
      ELSE IF set1.exc # "none" THEN Aligned(ax1, ax2, set1.exc)
      ELSE IF set2.exc # "none" THEN Aligned(set1.val, ax2, set2.exc)
      ELSE Aligned(set1.val, set2.val, "none")

(* -y_min / y_max if y_max > 0 else float('inf') *)
Ratio(y_min, y_max) ==
  IF Lt(Zero, y_max) THEN Div(Neg(y_min), y_max) ELSE Inf

(* if y_max > 0: ax.set_ylim(-target_ratio * y_max, y_max) *)
Apply(lim, y_max, target_ratio) ==
  IF Lt(Zero, y_max) THEN set_ylim(Neg(Mul(target_ratio, y_max)), y_max)
  ELSE Ok(lim)

(* the limits the two axes are left with: an exception of the first        *)
(* set_ylim leaves both as they were, one of the second leaves the first   *)
(* axis set                                                                *)
Settled(ax1, ax2, set1, set2) ==
  IF set1.exc # "none" THEN Aligned(ax1, ax2, set1.exc)
  ELSE IF set2.exc # "none" THEN Aligned(set1.val, ax2, set2.exc)
  ELSE Aligned(set1.val, set2.val, "none")

(* align_yaxis_zero once both ranges are widened to include zero *)
AlignWidened(ax1, ax2, y1_min, y1_max, y2_min, y2_max, target_ratio) ==
  IF y1_max = Zero /\ y2_max = Zero THEN Aligned(ax1, ax2, "none")
  ELSE IF y1_min = Zero /\ y2_min = Zero THEN Aligned(ax1, ax2, "none")
  ELSE Settled(ax1, ax2, Apply(ax1, y1_max, target_ratio),
               Apply(ax2, y2_max, target_ratio))

(* the widened limits of an axis *)
Widen(lim) == <<Min(lim[1], Zero), Max(lim[2], Zero)>>

AlignRanges(ax1, ax2, y1, y2) ==
  AlignWidened(ax1, ax2, y1[1], y1[2], y2[1], y2[2],
               Max(Ratio(y1[1], y1[2]), Ratio(y2[1], y2[2])))

(* src/shot_viewer.py align_yaxis_zero *)
align_yaxis_zero(ax1, ax2) == AlignRanges(ax1, ax2, Widen(ax1), Widen(ax2))

(* src/plot_met.py _align_yaxis_zero *)
_align_yaxis_zero(ax1, ax2) ==
  LET y1_min == Min(ax1[1], Zero)
      y1_max == Max(ax1[2], Zero)
      y2_min == Min(ax2[1], Zero)
      y2_max == Max(ax2[2], Zero)
      ratio1 == IF Lt(Zero, y1_max) THEN Div(Neg(y1_min), y1_max) ELSE Inf
      ratio2 == IF Lt(Zero, y2_max) THEN Div(Neg(y2_min), y2_max) ELSE Inf
      target_ratio == Max(ratio1, ratio2)
      set1 == IF Lt(Zero, y1_max)
              THEN set_ylim(Neg(Mul(target_ratio, y1_max)), y1_max)
              ELSE Ok(ax1)
      set2 == IF Lt(Zero, y2_max)
              THEN set_ylim(Neg(Mul(target_ratio, y2_max)), y2_max)
              ELSE Ok(ax2)
  IN  IF y1_max = Zero /\ y2_max = Zero THEN Aligned(ax1, ax2, "none")
      ELSE IF y1_min = Zero /\ y2_min = Zero THEN Aligned(ax1, ax2, "none")
      ELSE IF set1.exc # "none" THEN Aligned(ax1, ax2, set1.exc)
      ELSE IF set2.exc # "none" THEN Aligned(set1.val, ax2, set2.exc)
      ELSE Aligned(set1.val, set2.val, "none")

---------------------------------------------------------------------------
(* The input documents of the model.                                       *)

(* most records of a stream of field records *)
MaxRecords == 3

(* most records of a stream of raw times *)
MaxSamples == 4

Rec(time, shot_, sensors) ==
  Dict(Item("time", time) @@ Item("shot", shot_) @@ Item("sensors", sensors))

Document(records) == Dict("data" :> List(records))

(* values found where a number is expected *)
LeafValues ==
  {Num(90), Str("8.5"), Str("abc"), None, Bool(TRUE), List(<<Num(10)>>),
   Dict(NoItems)}

SetpointValues ==
  {None, List(<<>>), Dict(NoItems),
   Dict("pressure" :> Num(90)),
   Dict("pressure" :> None @@ "active" :> Str("pressure")),
   Dict("pressure" :> Str("abc")),
   Dict("flow" :> List(<<>>)),
   Dict("flow" :> Num(20) @@ "power" :> Num(500) @@ "active" :> Str("flow"))}

ShotValues ==
  {Absent, None, Num(90), List(<<>>), Dict("flow" :> None)}
  \cup {Dict(Item("pressure", v)) : v \in LeafValues \cup {Absent}}
  \cup {Dict("pressure" :> Num(90) @@ "setpoints" :> sp) : sp \in SetpointValues}

SensorValues ==
  {Dict("motor_speed" :> Num(30)), Dict("motor_power" :> None),
   Dict("motor_speed" :> Str("abc") @@ "motor_power" :> Num(500))}

(* records with every plotted field present and numeric *)
GoodRecords ==
  {Rec(Num(0), Dict("pressure" :> Num(90) @@ "flow" :> Num(20)),
       Dict("motor_speed" :> Num(30) @@ "motor_power" :> Num(500))),
   Rec(Num(1000),
       Dict("pressure" :> Num(85) @@
            "setpoints" :> Dict("pressure" :> Num(90) @@ "flow" :> Num(20) @@
                                "active" :> Str("pressure"))),
       Absent)}

(* records with a gap, a value of the wrong type, or no mapping at all *)
OddRecords ==
  {Rec(Num(0), s, Absent) : s \in ShotValues}
  \cup {Rec(Num(0), Absent, n) : n \in SensorValues}
  \cup {Rec(t, Absent, Absent) : t \in {Absent, Str("8.5"), Str("abc"), None}}
  \cup {None, List(<<>>)}

(* streams of good records with at most one odd record among them *)
FieldStreams ==
  UNION {LET base == [1..n -> GoodRecords]
         IN  base \cup {[b EXCEPT ![i] = o] :
                          b \in base, i \in 1..n, o \in OddRecords}
         : n \in 0..MaxRecords}

RawTimes == {0, 1, 50, 99, 1000}

TimeStreams ==
  UNION {[1..n -> {Rec(Num(t), Absent, Absent) : t \in RawTimes}]
         : n \in 0..MaxSamples}

TimesOnly(times) == [i \in 1..Len(times) |-> Rec(Num(times[i]), Absent, Absent)]

(* the streams the specification gives as examples *)
MillisExample == TimesOnly(<<0, 1000, 2000, 3000>>)

SecondsExample == TimesOnly(<<0, 1, 2, 3>>)

TrimExample == TimesOnly(<<0, 10, 20, 30, 40>>)

EndToEndExample ==
  <<Rec(Num(0), Dict("pressure" :> Num(90)), Absent),
    Rec(Num(1000), Dict("pressure" :> Num(85)), Absent)>>

ExampleStreams == {MillisExample, SecondsExample, TrimExample, EndToEndExample}

(* documents whose top level is not {"data": [...]} *)
MalformedDocuments ==
  {None, Num(90), Str("data"), List(<<>>), List(<<Str("data")>>),
   Dict(NoItems), Dict("data" :> None), Dict("data" :> Dict(NoItems)),
   Dict("profile_name" :> Str("abc"))}

Documents ==
  {Document(r) : r \in FieldStreams \cup TimeStreams \cup ExampleStreams}
  \cup {Dict("data" :> List(EndToEndExample) @@ "profile_name" :> Str("abc")
             @@ "time" :> Num(90))}
  \cup MalformedDocuments

(* the key paths asked for *)
Paths ==
  {<<>>, <<"time">>, <<"shot", "pressure">>, <<"shot", "setpoints", "pressure">>,
   <<"sensors", "motor_power">>, <<"shot", "pressure", "bar">>}

(* the records of the document, when it has a list of them *)
RecordsOf(document) ==
  IF IsDict(document) /\ "data" \in DOMAIN document.sub
       /\ document.sub["data"].k = "list"
  THEN document.sub["data"].sub ELSE <<>>

Range(seq) == {seq[i] : i \in DOMAIN seq}

(* the y limits given to the aligner: every axis range bottom < top over   *)
(* these numbers                                                           *)
Limits == {-15, -4, -2, -1, 0, 1, 2, 3, 5, 10, 11}

Ylims ==
  {<<FromInt(r[1]), FromInt(r[2])>> : r \in {p \in Limits \X Limits : p[1] < p[2]}}

(* the y limits of a new matplotlib axis: (0.0, 1.0) *)
DefaultYlim == <<Zero, FromInt(1)>>

(* trim durations around the times of the shot *)
Durations(time_s) ==
  {0, 25000} \cup Range(time_s) \cup {t - 1 : t \in Range(time_s)}

---------------------------------------------------------------------------
(* src/shot_viewer.py ShotViewerFrame: the interactive viewer.  A frame is *)
(* the record of its attributes: shot1 and shot2 (a ShotData, or None),    *)
(* shot1_settings and shot2_settings, field_checkboxes and field_secondary *)
(* (the value of the checkbox of each key), field_styles, compare_cb,      *)
(* plot_data, and lines, the traces that the last _update_plot drew on the *)
(* figure, in drawing order.                                               *)

(* the shot files the user can pick, by path.stem, with the document that  *)
(* json.load reads from each                                               *)
Files ==
  [first  |-> Dict("data" :> List(EndToEndExample) @@ "profile_name" :> Str("abc")
                   @@ "time" :> Num(90)),
   second |-> Document(<<Rec(Num(0), Dict("pressure" :> Num(20)
                                          @@ "flow" :> Num(10)), Absent),
                         Rec(Num(10000), Dict("pressure" :> Str("8.5")), Absent),
                         Rec(Num(20000), Dict("flow" :> Num(20)), Absent)>>),
   broken |-> Dict("profile_name" :> Str("abc"))]

(* the directory listings _auto_load_json_files can find, most recent      *)
(* first                                                                   *)
Directories ==
  {<<>>, <<"first">>, <<"first", "second">>, <<"broken", "second">>}

(* bool(v) *)
Truthy(v) ==
  CASE v.k \in {"float", "bool"} -> v.n # 0
    [] v.k = "str"               -> v.s # ""
    [] v.k \in {"list", "dict"}  -> DOMAIN v.sub # {}
    [] v.k = "NoneType"          -> FALSE
    [] OTHER                     -> TRUE

(* ShotData(path): _load on the document of the file *)
ShotData(path) ==
  LET out == _load(Files[path])
  IN  IF out.exc # "none" THEN out
      ELSE Ok([path         |-> path,
               profile_name |-> out.val.profile_name,
               shot_time    |-> out.val.shot_time,
               records      |-> out.val.records,
               time_s       |-> out.val.time_s])

(* self.shotN holds a ShotData *)
Loaded(slot) == "path" \in DOMAIN slot

(* datetime.fromtimestamp(self.shot_time) of get_title and get_date_label, *)
(* reached when shot_time is truthy: it takes a number                     *)
FromTimestamp(self) ==
  CASE self.shot_time.k \in {"float", "bool"} -> Ok(self.shot_time)
    [] self.shot_time.k = "nan"               -> Raise("ValueError")
    [] OTHER                                  -> Raise("TypeError")

(* ShotData.get_title: the exception, or "none" *)
get_title(self) ==
  IF Truthy(self.shot_time) THEN FromTimestamp(self).exc ELSE "none"

(* ShotData.get_date_label: the exception, or "none" *)
get_date_label(self) ==
  IF Truthy(self.shot_time) THEN FromTimestamp(self).exc ELSE "none"

get_short_name(self) == self.path

(* the entries of DATA_FIELDS the model keeps, as (path, name, unit) *)
DATA_FIELDS ==
  <<[path |-> <<"shot", "pressure">>, name |-> "Pressure", unit |-> "bar"],
    [path |-> <<"shot", "flow">>, name |-> "Flow", unit |-> "ml/s"]>>

(* ".".join(path) *)
RECURSIVE Join(_)
Join(path) ==
  IF path = <<>> THEN ""
  ELSE IF Len(path) = 1 THEN path[1]
  ELSE path[1] \o "." \o Join(Tail(path))

Keys == {Join(DATA_FIELDS[i].path) : i \in DOMAIN DATA_FIELDS}

(* a color of matplotlib: an (r, g, b) tuple in 255ths, or a str *)
Rgb(r, g, b) == [tuple |-> TRUE, rgb |-> <<r, g, b>>, text |-> ""]

Named(text) == [tuple |-> FALSE, rgb |-> <<>>, text |-> text]

(* plt.cm.tab10.colors *)
Tab10 ==
  <<Rgb(31, 119, 180), Rgb(255, 127, 14), Rgb(44, 160, 44), Rgb(214, 39, 40),
    Rgb(148, 103, 189), Rgb(140, 86, 75), Rgb(227, 119, 194),
    Rgb(127, 127, 127), Rgb(188, 189, 34), Rgb(23, 190, 207)>>

HexDigits ==
  <<"0", "1", "2", "3", "4", "5", "6", "7", "8", "9", "a", "b", "c", "d", "e", "f">>

(* '%02x' % n *)
Hex2(n) == HexDigits[(n \div 16) + 1] \o HexDigits[(n % 16) + 1]

(* the hex_color of _update_plot *)
HexColor(color) ==
  IF color.tuple
  THEN "#" \o Hex2(color.rgb[1]) \o Hex2(color.rgb[2]) \o Hex2(color.rgb[3])
  ELSE color.text

(* StyleDialog.LINESTYLES, the values *)
LINESTYLES == <<"-", "--", ":", "-.">>

(* a style of field_styles: a function from some of "color", "linestyle"   *)
(* and "linewidth" to a str, a str and a width in tenths; the color None   *)
(* of the preset "Auto" is the str ""                                      *)
NoStyle == [x \in {} |-> 0]

StyleGet(style, key, default) ==
  IF key \in DOMAIN style THEN style[key] ELSE default

(* seq[:n] for n >= 0 *)
Prefix(seq, n) == SubSeq(seq, 1, IF n < Len(seq) THEN n ELSE Len(seq))

(* ShotViewerFrame._get_selected_fields *)
_get_selected_fields(self) ==
  LET checked == SelectSeq(DATA_FIELDS,
                           LAMBDA f : self.field_checkboxes[Join(f.path)])
  IN  [i \in 1..Len(checked) |->
        [path         |-> checked[i].path,
         name         |-> checked[i].name,
         unit         |-> checked[i].unit,
         is_secondary |-> self.field_secondary[Join(checked[i].path)]]]

(* target_ax.plot(x, y, label=, color=, linewidth=, linestyle=) *)
Plot(target_ax, x, y, label, color, linewidth, linestyle) ==
  [axis |-> target_ax, x |-> x, y |-> y, label |-> label, color |-> color,
   linewidth |-> linewidth, linestyle |-> linestyle]

(* what the loop over the selected fields leaves: plot_data, the traces    *)
(* drawn, and the exception that ended the loop early                      *)
Drawn(plot_data, lines, exc) ==
  [plot_data |-> plot_data, lines |-> lines, exc |-> exc]

(* the loop variables of _update_plot for each selected field: the key,   *)
(* the style directives with their defaults, and the axis                  *)
Styled(self, selected) ==
  [i \in DOMAIN selected |->
    LET key == Join(selected[i].path)
        style == StyleGet(self.field_styles, key, NoStyle)
        stored == StyleGet(style, "color", "")
    IN  [key          |-> key,
         name         |-> selected[i].name,
         unit         |-> selected[i].unit,
         is_secondary |-> selected[i].is_secondary,
         color        |-> IF stored # "" THEN Named(stored)
                          ELSE Tab10[((i - 1) % Len(Tab10)) + 1],
         linestyle    |-> StyleGet(style, "linestyle", "-"),
         linewidth    |-> StyleGet(style, "linewidth", 15),
         target_ax    |-> IF selected[i].is_secondary THEN "ax2" ELSE "ax"]]

(* the fields list of plot_data *)
FieldList(fields) ==
  [i \in DOMAIN fields |->
    <<fields[i].key, fields[i].name, fields[i].unit, HexColor(fields[i].color)>>]

(* a dict of plot_data from key to series, for one series per field *)
ByKey(fields, series) ==
  [k \in {fields[i].key : i \in DOMAIN fields} |->
    series[CHOOSE i \in DOMAIN fields : fields[i].key = k]]

(* the overlay loop of _update_plot on the trimmed times and series of the *)
(* two shots (get_series raises for no record of the model)                *)
OverlayDrawn(fields, name1, name2, time1, time2, series1, series2) ==
  Drawn([compare    |-> TRUE,
         shot1_name |-> name1,
         shot2_name |-> name2,
         time1      |-> time1,
         time2      |-> time2,
         series1    |-> ByKey(fields, series1),
         series2    |-> ByKey(fields, series2),
         fields     |-> FieldList(fields)],
        [j \in 1..(2 * Len(fields)) |->
          LET f == fields[(j + 1) \div 2]
              mark == IF f.is_secondary THEN " [2nd]" ELSE ""
              ls2 == IF f.linestyle = "-" THEN "--" ELSE ":"
          IN  IF j % 2 = 1
              THEN Plot(f.target_ax, time1, series1[(j + 1) \div 2],
                        f.name \o " (" \o name1 \o ")" \o mark,
                        f.color, f.linewidth, f.linestyle)
              ELSE Plot(f.target_ax, time2, series2[(j + 1) \div 2],
                        f.name \o " (" \o name2 \o ")" \o mark,
                        f.color, f.linewidth, ls2)],
        "none")

(* the compare branch of _update_plot with the trim indices given *)
OverlayWith(self, selected, trim1, trim2) ==
  OverlayDrawn(Styled(self, selected),
               get_short_name(self.shot1), get_short_name(self.shot2),
               Prefix(self.shot1.time_s, trim1), Prefix(self.shot2.time_s, trim2),
               [i \in DOMAIN selected |->
                 Prefix(get_series(self.shot1, selected[i].path).val, trim1)],
               [i \in DOMAIN selected |->
                 Prefix(get_series(self.shot2, selected[i].path).val, trim2)])

(* the compare branch with the second shot trimmed by the first slot's     *)
(* settings                                                                *)
Overlay_one_setting(self, selected) ==
  OverlayWith(self, selected,
              get_trimmed_data(self.shot1, self.shot1_settings),
              get_trimmed_data(self.shot2, self.shot1_settings))

(* the compare branch of _update_plot *)
Overlay(self, selected) ==
  OverlayWith(self, selected,
              get_trimmed_data(self.shot1, self.shot1_settings),
              get_trimmed_data(self.shot2, self.shot2_settings))

(* the loop of the single shot branch on the trimmed times and series *)
SingleDrawn(fields, time_trimmed, series) ==
  Drawn([compare |-> FALSE,
         time    |-> time_trimmed,
         series  |-> ByKey(fields, series),
         fields  |-> FieldList(fields)],
        [i \in DOMAIN fields |->
          Plot(fields[i].target_ax, time_trimmed, series[i],
               fields[i].name
                 \o (IF fields[i].unit # "" THEN " (" \o fields[i].unit \o ")"
                     ELSE "")
                 \o (IF fields[i].is_secondary THEN " [2nd]" ELSE ""),
               fields[i].color, fields[i].linewidth, fields[i].linestyle)],
        "none")

(* the single shot branch that cuts the times only *)
SingleWith_unsliced(self, selected, shot_, trim_idx) ==
  SingleDrawn(Styled(self, selected), Prefix(shot_.time_s, trim_idx),
              [i \in DOMAIN selected |-> get_series(shot_, selected[i].path).val])

(* the single shot branch for the shot and the settings it takes *)
SingleWith(self, selected, shot_, trim_idx) ==
  SingleDrawn(Styled(self, selected), Prefix(shot_.time_s, trim_idx),
              [i \in DOMAIN selected |->
                Prefix(get_series(shot_, selected[i].path).val, trim_idx)])

(* the single shot branch that always takes the settings of slot 1 *)
Single_first_settings(self, selected) ==
  IF Loaded(self.shot1)
  THEN SingleWith(self, selected, self.shot1,
                  get_trimmed_data(self.shot1, self.shot1_settings))
  ELSE SingleWith(self, selected, self.shot2,
                  get_trimmed_data(self.shot2, self.shot1_settings))

(* the single shot branch of _update_plot *)
Single(self, selected) ==
  IF Loaded(self.shot1)
  THEN SingleWith(self, selected, self.shot1,
                  get_trimmed_data(self.shot1, self.shot1_settings))
  ELSE SingleWith(self, selected, self.shot2,
                  get_trimmed_data(self.shot2, self.shot2_settings))

(* the y limits autoscaling can leave on the primary and the secondary     *)
(* axis: matplotlib computes them from the traces                          *)
AutoYlims ==
  {<<<<FromInt(-1), FromInt(2)>>, <<FromInt(0), FromInt(10)>>>>,
   <<<<FromInt(-1), FromInt(2)>>, <<FromInt(-15), FromInt(-1)>>>>}

(* align_yaxis_zero(self.ax, ax2) of _update_plot on each of them *)
AlignedAuto == [auto \in AutoYlims |-> align_yaxis_zero(auto[1], auto[2])]

(* the figure has no secondary axis *)
NoAxis == <<>>

(* the frame and the y limits of its axes after a handler, with the        *)
(* exception that left the handler, or "none"                              *)
View(self, ax1, ax2, exc) == [self |-> self, ax |-> ax1, twin |-> ax2, exc |-> exc]

(* the view once align_yaxis_zero has returned or raised *)
AlignedView(self, out) == View(self, out.ax1, out.ax2, out.exc)

(* the end of _update_plot once the traces are drawn: the title, the      *)
(* alignment of the two axes when one field is secondary                   *)
Titled(self, selected, drawn, title, auto) ==
  LET shown == [self EXCEPT !.plot_data = drawn.plot_data, !.lines = drawn.lines]
      has_secondary == \E i \in DOMAIN selected : selected[i].is_secondary
      ax2 == IF has_secondary THEN auto[2] ELSE NoAxis
  IN  IF drawn.exc # "none" THEN View(shown, auto[1], ax2, drawn.exc)
      ELSE IF title # "none" THEN View(shown, auto[1], ax2, title)
      ELSE IF ~has_secondary THEN View(shown, auto[1], NoAxis, "none")
      ELSE AlignedView(shown, AlignedAuto[auto])

(* _update_plot with the selected fields given *)
Selected(self, selected, auto) ==
  IF Len(selected) = 0
  THEN View([self EXCEPT !.plot_data = NoItems, !.lines = <<>>],
            DefaultYlim, NoAxis, "none")
  ELSE IF self.compare_cb /\ Loaded(self.shot1) /\ Loaded(self.shot2)
  THEN Titled(self, selected, Overlay(self, selected), "none", auto)
  ELSE Titled(self, selected, Single(self, selected),
              get_title(IF Loaded(self.shot1) THEN self.shot1 ELSE self.shot2),
              auto)

(* _update_plot that cuts the time sequence of the second shot in place    *)
(* instead of slicing a copy                                               *)
_update_plot_in_place(self, auto) ==
  IF ~Loaded(self.shot1) /\ ~Loaded(self.shot2)
  THEN View([self EXCEPT !.plot_data = NoItems, !.lines = <<>>],
            DefaultYlim, NoAxis, "none")
  ELSE IF ~Loaded(self.shot2)
  THEN Selected(self, _get_selected_fields(self), auto)
  ELSE Selected([self EXCEPT !.shot2.time_s =
                   Prefix(@, get_trimmed_data(self.shot2, self.shot2_settings))],
                _get_selected_fields(self), auto)

(* ShotViewerFrame._update_plot.  auto holds the y limits that autoscaling *)
(* gives the primary and the secondary axis for the traces drawn; an empty *)
(* figure keeps the limits of a new axis.                                  *)
_update_plot(self, auto) ==
  IF ~Loaded(self.shot1) /\ ~Loaded(self.shot2)
  THEN View([self EXCEPT !.plot_data = NoItems, !.lines = <<>>],
            DefaultYlim, NoAxis, "none")
  ELSE Selected(self, _get_selected_fields(self), auto)

(* ShotViewerFrame.__init__ up to _setup_ui: the attributes and the        *)
(* default selections of _create_checkboxes                                *)
ShotViewerFrame ==
  [shot1            |-> None,
   shot2            |-> None,
   shot1_settings   |-> NoSettings,
   shot2_settings   |-> NoSettings,
   field_checkboxes |-> [k \in Keys |->
                          k \in {"shot.pressure", "shot.flow", "shot.weight"}],
   field_secondary  |-> [k \in Keys |-> FALSE],
   field_styles     |-> NoItems,
   compare_cb       |-> FALSE,
   plot_data        |-> NoItems,
   lines            |-> <<>>]

(* self.shotN = shot; the label; self.shotN_settings = {}: the label       *)
(* raises before the settings are reset                                    *)
Hold(self, slot, shot_) ==
  LET held == IF slot = 1 THEN [self EXCEPT !.shot1 = shot_]
              ELSE [self EXCEPT !.shot2 = shot_]
  IN  IF get_date_label(shot_) # "none" THEN held
      ELSE IF slot = 1 THEN [held EXCEPT !.shot1_settings = NoSettings]
      ELSE [held EXCEPT !.shot2_settings = NoSettings]

(* one try block of _auto_load_json_files and of _load_file, on the        *)
(* outcome of ShotData(path)                                               *)
Try(self, slot, out) ==
  IF out.exc # "none" THEN self ELSE Hold(self, slot, out.val)

(* ShotViewerFrame._auto_load_json_files on the listing files_with_time *)
_auto_load_json_files(self, files_with_time, auto) ==
  LET first == IF Len(files_with_time) < 1 THEN self
               ELSE Try(self, 1, ShotData(files_with_time[1]))
  IN  _update_plot(IF Len(files_with_time) < 2 THEN first
                   ELSE Try(first, 2, ShotData(files_with_time[2])),
                   auto)

(* the try block of _load_file on the outcome of ShotData(path): the plot  *)
(* is redrawn only when nothing is raised before; exc is the exception     *)
(* that the except clause catches                                          *)
Tried(v, slot, out, auto) ==
  IF out.exc # "none" THEN View(v.self, v.ax, v.twin, out.exc)
  ELSE IF get_date_label(out.val) # "none"
  THEN View(Try(v.self, slot, out), v.ax, v.twin, get_date_label(out.val))
  ELSE _update_plot(Try(v.self, slot, out), auto)

(* the except clause of _load_file: the message box "Failed to load file", *)
(* and the handler returns                                                 *)
MessageBox(tried) == [tried EXCEPT !.exc = "none"]

(* ShotViewerFrame._load_file once the file dialog returned path *)
_load_file(v, slot, path, auto) == MessageBox(Tried(v, slot, ShotData(path), auto))

(* ShotViewerFrame._clear_file *)
_clear_file(v, slot, auto) ==
  _update_plot(IF slot = 1
               THEN [v.self EXCEPT !.shot1 = None, !.shot1_settings = NoSettings]
               ELSE [v.self EXCEPT !.shot2 = None, !.shot2_settings = NoSettings],
               auto)

(* the shot and the settings of a slot *)
ShotOf(self, slot) == IF slot = 1 THEN self.shot1 ELSE self.shot2

SettingsOf(self, slot) ==
  IF slot = 1 THEN self.shot1_settings ELSE self.shot2_settings

(* self.shotN_settings = settings *)
WithSettings(self, slot, settings) ==
  IF slot = 1 THEN [self EXCEPT !.shot1_settings = settings]
  ELSE [self EXCEPT !.shot2_settings = settings]

(* the 0.1 s floor of the spin control, in 1/10000 s *)
MinDuration == 1000

(* no modal dialog is open *)
NoDialog == [kind |-> "none"]

(* FileSettingsDialog(parent, shot_data, current_settings, callback) as    *)
(* _open_file_settings makes it, with the slot and the original_settings   *)
(* that the handler keeps while the dialog runs; value is the value of     *)
(* duration_ctrl                                                           *)
FileSettingsDialog(slot, shot_data, current_settings) ==
  LET time_s == shot_data.time_s
      last == IF time_s # <<>> THEN time_s[Len(time_s)] ELSE MinDuration
      max_duration == IF last > MinDuration THEN last ELSE MinDuration
      result_settings ==
        IF "trim_duration" \in DOMAIN current_settings THEN current_settings
        ELSE TrimTo(max_duration) @@ current_settings
      initial_value == result_settings["trim_duration"]
      capped == IF initial_value < max_duration THEN initial_value
                ELSE max_duration
  IN  [kind              |-> "settings",
       slot              |-> slot,
       original_settings |-> current_settings,
       max_duration      |-> max_duration,
       result_settings   |-> result_settings,
       value             |-> IF capped > MinDuration THEN capped ELSE MinDuration,
       saved             |-> FALSE]

(* a view and the dialog left open, or NoDialog *)
Modal(view, dialog) == [view |-> view, dlg |-> dialog]

(* on_settings_change of _open_file_settings, the live preview callback *)
on_settings_change(v, slot, new_settings, auto) ==
  _update_plot(WithSettings(v.self, slot, new_settings), auto)

(* _open_file_settings that keeps the previewed settings on Cancel *)
_open_file_settings_keep(v, d, auto) ==
  Modal(_update_plot(IF d.saved
                     THEN WithSettings(v.self, d.slot, d.result_settings)
                     ELSE v.self,
                     auto),
        NoDialog)

(* the rest of _open_file_settings once ShowModal has returned *)
_open_file_settings(v, d, auto) ==
  Modal(_update_plot(WithSettings(v.self, d.slot,
                                  IF d.saved THEN d.result_settings
                                  ELSE d.original_settings),
                     auto),
        NoDialog)

(* FileSettingsDialog._on_duration_change with the spin control at value *)
_on_duration_change(v, d, value, auto) ==
  LET result_settings == TrimTo(value) @@ d.result_settings
  IN  Modal(on_settings_change(v, d.slot, result_settings, auto),
            [d EXCEPT !.value = value, !.result_settings = result_settings])

(* FileSettingsDialog._on_reset_max *)
_on_reset_max(v, d, auto) ==
  LET result_settings == TrimTo(d.max_duration) @@ d.result_settings
  IN  Modal(on_settings_change(v, d.slot, result_settings, auto),
            [d EXCEPT !.value = d.max_duration,
                      !.result_settings = result_settings])

(* FileSettingsDialog._on_defaults: EndModal is not reached when the       *)
(* callback raises, and the dialog stays open with saved set               *)
EndModal(shown, d, auto) ==
  IF shown.exc # "none" THEN Modal(shown, d)
  ELSE _open_file_settings(shown, d, auto)

_on_defaults(v, d, auto) ==
  EndModal(on_settings_change(v, d.slot, TrimTo(d.max_duration), auto),
           [d EXCEPT !.result_settings = TrimTo(d.max_duration), !.saved = TRUE],
           auto)

(* FileSettingsDialog._on_save *)
_on_save(v, d, auto) ==
  _open_file_settings(v, [d EXCEPT !.result_settings =
                                     TrimTo(d.value) @@ d.result_settings,
                                   !.saved = TRUE],
                      auto)

(* ShotViewerFrame._open_style_dialog for a whole run of the StyleDialog.  *)
(* edits are the entries the user has set in result_style; closing is      *)
(* "save", "defaults" or "cancel".  _on_save adds the linestyle and the    *)
(* linewidth that the choices show, which are those of the current style   *)
(* or the first pattern and 1.5.                                           *)
_open_style_dialog(v, key, edits, closing, auto) ==
  LET current_style == StyleGet(v.self.field_styles, key, NoStyle)
      result_style ==
        edits @@ current_style
          @@ ("linestyle" :> LINESTYLES[1] @@ "linewidth" :> 15)
      new_style == CASE closing = "save"     -> result_style
                     [] closing = "defaults" -> NoStyle
                     [] OTHER                -> current_style
      rest == [k \in DOMAIN v.self.field_styles \ {key} |->
                v.self.field_styles[k]]
      field_styles == IF DOMAIN new_style # {} THEN (key :> new_style) @@ rest
                      ELSE rest
  IN  _update_plot([v.self EXCEPT !.field_styles = field_styles], auto)

(* Sessions.  A session file is a JSON document; the session documents of *)
(* the model are mappings whose entries, when present, have the types that *)
(* _save_session writes.  A number of a settings dict is a duration in     *)
(* 1/10000 s, a linewidth is in tenths.                                    *)

(* a settings dict as json.dump writes it and as json.load reads it *)
SettingsJson(settings) == Dict([k \in DOMAIN settings |-> Num(settings[k])])

SettingsFrom(value) == [k \in DOMAIN value.sub |-> value.sub[k].n]

(* a style dict likewise: the color None of the preset "Auto" is null *)
StyleJson(style) ==
  Dict([k \in DOMAIN style |->
         IF k = "linewidth" THEN Num(style[k])
         ELSE IF style[k] = "" THEN None
         ELSE Str(style[k])])

StyleFrom(value) ==
  [k \in DOMAIN value.sub |->
    CASE value.sub[k].k = "float"    -> value.sub[k].n
      [] value.sub[k].k = "NoneType" -> ""
      [] OTHER                       -> value.sub[k].s]

(* str(self.shotN.path) if self.shotN else None *)
PathJson(slot) == IF Loaded(slot) THEN Str(slot.path) ELSE None

(* the dict `session` of _save_session, as json.dump writes it to the file *)
(* and json.load reads it back; without the secondary-axis flags in the    *)
(* first definition                                                        *)
SessionOf_no_secondary(self) ==
  Dict([shot1_path       |-> PathJson(self.shot1),
        shot2_path       |-> PathJson(self.shot2),
        shot1_settings   |-> SettingsJson(self.shot1_settings),
        shot2_settings   |-> SettingsJson(self.shot2_settings),
        compare_mode     |-> Bool(self.compare_cb),
        field_checkboxes |-> Dict([k \in DOMAIN self.field_checkboxes |->
                                    Bool(self.field_checkboxes[k])]),
        field_styles     |-> Dict([k \in DOMAIN self.field_styles |->
                                    StyleJson(self.field_styles[k])])])

SessionOf(self) ==
  Dict([shot1_path       |-> PathJson(self.shot1),
        shot2_path       |-> PathJson(self.shot2),
        shot1_settings   |-> SettingsJson(self.shot1_settings),
        shot2_settings   |-> SettingsJson(self.shot2_settings),
        compare_mode     |-> Bool(self.compare_cb),
        field_checkboxes |-> Dict([k \in DOMAIN self.field_checkboxes |->
                                    Bool(self.field_checkboxes[k])]),
        field_secondary  |-> Dict([k \in DOMAIN self.field_secondary |->
                                    Bool(self.field_secondary[k])]),
        field_styles     |-> Dict([k \in DOMAIN self.field_styles |->
                                    StyleJson(self.field_styles[k])])])

(* the shot that _load_session leaves in a slot for the path of the        *)
(* session: None unless the path is truthy, the file exists, ShotData      *)
(* reads it and its label can be made                                      *)
SessionShot(shot_path) ==
  IF ~Truthy(shot_path) \/ shot_path.s \notin DOMAIN Files THEN None
  ELSE IF ShotData(shot_path.s).exc # "none" THEN None
  ELSE IF get_date_label(ShotData(shot_path.s).val) # "none" THEN None
  ELSE ShotData(shot_path.s).val

(* the loop that restores the checkboxes of the keys the frame has *)
Restored(boxes, values) ==
  [k \in DOMAIN boxes |->
    IF k \in DOMAIN values.sub THEN Truthy(values.sub[k]) ELSE boxes[k]]

(* session.get(key, default) of a session document *)
SessionGet(session, key, default) == DictGet(session, key, default).val

(* ShotViewerFrame._load_session once json.load has read the session *)
_load_session(v, session, auto) ==
  _update_plot(
    [v.self EXCEPT
       !.shot1 = SessionShot(SessionGet(session, "shot1_path", None)),
       !.shot2 = SessionShot(SessionGet(session, "shot2_path", None)),
       !.shot1_settings =
          SettingsFrom(SessionGet(session, "shot1_settings", Dict(NoItems))),
       !.shot2_settings =
          SettingsFrom(SessionGet(session, "shot2_settings", Dict(NoItems))),
       !.compare_cb = Truthy(SessionGet(session, "compare_mode", Bool(FALSE))),
       !.field_checkboxes =
          Restored(@, SessionGet(session, "field_checkboxes", Dict(NoItems))),
       !.field_secondary =
          Restored(@, SessionGet(session, "field_secondary", Dict(NoItems))),
       !.field_styles =
          [k \in DOMAIN SessionGet(session, "field_styles", Dict(NoItems)).sub |->
            StyleFrom(SessionGet(session, "field_styles", Dict(NoItems)).sub[k])]],
    auto)

(* the frame of a user who has loaded the three-sample shot into slot 1    *)
(* and the two-sample shot into slot 2, trimmed slot 1 to 0.1 s, set the   *)
(* compare mode, unchecked shot.flow and saved a red dotted style for      *)
(* shot.pressure                                                           *)
SavedFrame ==
  [ShotViewerFrame EXCEPT
     !.shot1 = ShotData("second").val,
     !.shot2 = ShotData("first").val,
     !.shot1_settings = TrimTo(MinDuration),
     !.compare_cb = TRUE,
     !.field_checkboxes = [@ EXCEPT !["shot.flow"] = FALSE],
     !.field_styles = "shot.pressure" :>
        ("linestyle" :> ":" @@ "linewidth" :> 15)]

(* the session files on disk: one that _save_session wrote for SavedFrame, *)
(* and one written for a shot file that is no longer there                 *)
Sessions ==
  {SessionOf(SavedFrame),
   Dict([shot1_path     |-> Str("gone"),
         shot1_settings |-> SettingsJson(TrimTo(MinDuration))])}

(* Hover.  _on_mouse_move(event) reads plot_data and sets the page of the  *)
(* hover panel.  x is event.xdata, a time in 1/10000 s.                    *)

(* find_nearest_idx(time_array, target): None for an empty array, else the *)
(* first index, counted from 0, of a time nearest to the target            *)
find_nearest_idx(time_array, target) ==
  IF time_array = <<>> THEN [found |-> FALSE, idx |-> 0]
  ELSE [found |-> TRUE,
        idx   |-> (CHOOSE i \in DOMAIN time_array :
                     /\ \A j \in DOMAIN time_array :
                          Abs(time_array[i] - target) <= Abs(time_array[j] - target)
                     /\ \A j \in 1..(i - 1) :
                          Abs(time_array[j] - target) > Abs(time_array[i] - target))
                  - 1]

(* f"{val:.2f}" for the number n / scale, when it is a whole number of     *)
(* hundredths: values are counted in tenths, times in 1/10000 s            *)
Fixed2(n, scale) ==
  LET hundredths == (Abs(n) * 100) \div scale
  IN  (IF n < 0 THEN "-" ELSE "") \o ToString(hundredths \div 100) \o "."
        \o ToString((hundredths \div 10) % 10) \o ToString(hundredths % 10)

(* format_value(val, unit) *)
format_value(val, unit) ==
  IF val.k \in {"NoneType", "nan"} THEN "N/A"
  ELSE IF unit # "" THEN Fixed2(val.n, 10) \o " " \o unit
  ELSE Fixed2(val.n, 10)

(* color_square(hex_color), with the two block characters written as ## *)
color_square(hex_color) ==
  "<span style=\"background-color: " \o hex_color \o "; color: " \o hex_color
    \o "; border: 1px solid #333;\">##</span>"

(* a read of series[key][idx] without the test of the index *)
Sample_unguarded(series, key, nearest) ==
  IF key \notin DOMAIN series THEN Raise("KeyError")
  ELSE IF nearest.idx + 1 \in DOMAIN series[key]
  THEN Ok(series[key][nearest.idx + 1])
  ELSE Raise("IndexError")

(* series[key][idx] if idx is not None and idx < len(series[key]) else     *)
(* None: the dict is read first, and a list read beyond its end raises     *)
Sample(series, key, nearest) ==
  IF key \notin DOMAIN series THEN Raise("KeyError")
  ELSE IF ~(nearest.found /\ nearest.idx < Len(series[key])) THEN Ok(None)
  ELSE IF nearest.idx + 1 \in DOMAIN series[key]
  THEN Ok(series[key][nearest.idx + 1])
  ELSE Raise("IndexError")

(* "<br>".join(lines) *)
RECURSIVE JoinBr(_)
JoinBr(lines) ==
  IF Len(lines) = 0 THEN ""
  ELSE IF Len(lines) = 1 THEN lines[1]
  ELSE lines[1] \o "<br>" \o JoinBr(Tail(lines))

(* what a call of _on_mouse_move leaves: the lines it has built and the    *)
(* content it gives _set_hover_html, or the exception of a read that       *)
(* failed                                                                  *)
Hovered(lines, reads) ==
  IF \E i \in DOMAIN reads : reads[i].exc # "none"
  THEN Raise(reads[CHOOSE i \in DOMAIN reads : reads[i].exc # "none"].exc)
  ELSE Ok([lines |-> lines, content |-> JoinBr(lines)])

(* the compare branch of _on_mouse_move *)
HoverCompare(plot_data, x, idx1, idx2) ==
  LET fields == plot_data.fields
      val1 == [i \in DOMAIN fields |-> Sample(plot_data.series1, fields[i][1], idx1)]
      val2 == [i \in DOMAIN fields |-> Sample(plot_data.series2, fields[i][1], idx2)]
  IN  Hovered(<<"<b>Time: " \o Fixed2(x, 10000) \o "s</b>">>
                \o [i \in DOMAIN fields |->
                     IF val1[i].exc # "none" \/ val2[i].exc # "none" THEN ""
                     ELSE color_square(fields[i][4]) \o " <b>" \o fields[i][2]
                            \o ":</b> " \o format_value(val1[i].val, fields[i][3])
                            \o " (" \o plot_data.shot1_name \o ") | "
                            \o format_value(val2[i].val, fields[i][3])
                            \o " (" \o plot_data.shot2_name \o ")"],
              val1 \o val2)

(* the single shot branch of _on_mouse_move *)
HoverSingle(plot_data, x, idx) ==
  LET fields == IF idx.found THEN plot_data.fields ELSE <<>>
      val == [i \in DOMAIN fields |-> Sample(plot_data.series, fields[i][1], idx)]
  IN  Hovered(<<"<b>Time: " \o Fixed2(x, 10000) \o "s</b>">>
                \o [i \in DOMAIN fields |->
                     IF val[i].exc # "none" THEN ""
                     ELSE color_square(fields[i][4]) \o " <b>" \o fields[i][2]
                            \o ":</b> " \o format_value(val[i].val, fields[i][3])],
              val)

(* ShotViewerFrame._on_mouse_move for an event with inaxes and xdata = x;  *)
(* xdata is None when has_x is false, and then the handler returns with    *)
(* nothing given to the panel                                              *)
_on_mouse_move(self, inaxes, has_x, x) ==
  IF ~inaxes \/ DOMAIN self.plot_data = {}
  THEN Ok([lines   |-> <<>>,
           content |-> "<span style='color: #666;'>Hover over plot to see values</span>"])
  ELSE IF ~has_x THEN Ok([lines |-> <<>>, content |-> ""])
  ELSE IF self.plot_data.compare
  THEN HoverCompare(self.plot_data, x,
                    find_nearest_idx(self.plot_data.time1, x),
                    find_nearest_idx(self.plot_data.time2, x))
  ELSE HoverSingle(self.plot_data, x, find_nearest_idx(self.plot_data.time, x))

(* the positions of the pointer over the plot, in 1/10000 s *)
HoverTargets == {-5000, 0, 400, 1000, 6000, 100000, 250000}

(* session files written by hand that the hovered viewers have loaded: one *)
(* shot, two shots overlaid, and the same with trim durations below the    *)
(* first sample, which leave nothing of a shot to draw                     *)
HoverSessions ==
  {Dict(NoItems),
   Dict([shot1_path |-> Str("first")]),
   Dict([shot2_path |-> Str("second")]),
   Dict([shot2_path |-> Str("second"),
         shot2_settings |-> SettingsJson(TrimTo(-10000))]),
   Dict([shot1_path |-> Str("second"), shot2_path |-> Str("first"),
         compare_mode |-> Bool(TRUE)]),
   Dict([shot1_path |-> Str("second"), shot2_path |-> Str("first"),
         compare_mode |-> Bool(TRUE),
         shot1_settings |-> SettingsJson(TrimTo(-10000))]),
   Dict([shot1_path |-> Str("first"), shot2_path |-> Str("second"),
         compare_mode |-> Bool(TRUE),
         shot1_settings |-> SettingsJson(TrimTo(MinDuration)),
         shot2_settings |-> SettingsJson(TrimTo(-10000))]),
   Dict([shot1_path |-> Str("first"), shot2_path |-> Str("second"),
         compare_mode |-> Bool(TRUE),
         shot1_settings |-> SettingsJson(TrimTo(-10000)),
         shot2_settings |-> SettingsJson(TrimTo(-10000))])}

(* the entries a user sets in the StyleDialog before closing it *)
StyleEdits ==
  {NoStyle, "color" :> "#d62728"}
    \cup {"linestyle" :> LINESTYLES[i] : i \in DOMAIN LINESTYLES}

(* the runs of the StyleDialog: the edits and the button that closes it;   *)
(* "Defaults" and "Cancel" drop the edits                                  *)
StyleRuns ==
  {<<edits, "save">> : edits \in StyleEdits}
    \cup {<<NoStyle, "defaults">>, <<NoStyle, "cancel">>}

(* the keys whose style button and whose "2nd" checkbox the user works *)
StyledKeys == {"shot.pressure"}

SecondaryKeys == {"shot.flow"}

(* the values the user gives the spin control of the FileSettingsDialog; *)
(* "Max" gives max_duration                                              *)
DialogDurations == {MinDuration}

---------------------------------------------------------------------------
(* The state: the parsed input document; shot, the outcome of              *)
(* ShotData(path) on it; res, the call being made and its outcome; ax and  *)
(* twin, the y limits of the primary axis of the figure and of the         *)
(* secondary axis made by twinx(); frame, the fields of the                *)
(* ShotViewerFrame and what its last _update_plot drew; dlg, the modal     *)
(* FileSettingsDialog that is open, if any.  Every operation runs to       *)
(* completion on the calling thread before the next one starts: a call is  *)
(* made when no call is pending, and Return ends it.                       *)

NoCall == [op |-> "none", arg |-> <<>>, out |-> Ok(None)]

Call(op, arg, out) == [op |-> op, arg |-> arg, out |-> out]

Idle == res.op = "none"

Init ==
  /\ doc \in Documents
  /\ shot = _load(doc)
  /\ res = NoCall
  /\ ax = DefaultYlim
  /\ twin = DefaultYlim
  /\ frame = ShotViewerFrame
  /\ dlg = NoDialog

SafeGet ==
  /\ Idle
  /\ \E d \in Range(RecordsOf(doc)), path \in Paths :
       res' = Call("safe_get", <<d, path, NaN>>, safe_get(d, path, NaN))
  /\ UNCHANGED <<doc, shot, ax, twin, frame, dlg>>

PlotSafeGet ==
  /\ Idle
  /\ \E d \in Range(RecordsOf(doc)), path \in Paths, default \in {NaN, Dict(NoItems)} :
       res' = Call("_safe_get", <<d, path, default>>, _safe_get(d, path, default))
  /\ UNCHANGED <<doc, shot, ax, twin, frame, dlg>>

InferTimeScale ==
  /\ Idle
  /\ TimesRaw(RecordsOf(doc)).exc = "none"
  /\ LET times_raw == TimesRaw(RecordsOf(doc)).val
     IN  res' = Call("infer_time_scale", times_raw, Ok(infer_time_scale(times_raw)))
  /\ UNCHANGED <<doc, shot, ax, twin, frame, dlg>>

PlotInferTimeScale ==
  /\ Idle
  /\ TimesRaw(RecordsOf(doc)).exc = "none"
  /\ LET times_raw == TimesRaw(RecordsOf(doc)).val
     IN  res' = Call("_infer_time_scale_ms_to_s", times_raw,
                     Ok(_infer_time_scale_ms_to_s(times_raw)))
  /\ UNCHANGED <<doc, shot, ax, twin, frame, dlg>>

GetSeries ==
  /\ Idle
  /\ shot.exc = "none"
  /\ \E path \in Paths :
       res' = Call("get_series", path, get_series(shot.val, path))
  /\ UNCHANGED <<doc, shot, ax, twin, frame, dlg>>

GetTrimmedData ==
  /\ Idle
  /\ shot.exc = "none"
  /\ \E settings \in {NoSettings} \cup
                     {TrimTo(d) : d \in Durations(shot.val.time_s)} :
       res' = Call("get_trimmed_data", settings,
                   Ok(get_trimmed_data(shot.val, settings)))
  /\ UNCHANGED <<doc, shot, ax, twin, frame, dlg>>

LoadShotJson ==
  /\ Idle
  /\ res' = Call("load_shot_json", doc, load_shot_json(doc))
  /\ UNCHANGED <<doc, shot, ax, twin, frame, dlg>>

BuildSeries ==
  /\ Idle
  /\ load_shot_json(doc).exc = "none"
  /\ LET records == load_shot_json(doc).val
     IN  res' = Call("build_series", records, build_series(records))
  /\ UNCHANGED <<doc, shot, ax, twin, frame, dlg>>

Return ==
  /\ ~Idle
  /\ res' = NoCall
  /\ UNCHANGED <<doc, shot, ax, twin, frame, dlg>>

Next ==
  \/ SafeGet
  \/ PlotSafeGet
  \/ InferTimeScale
  \/ PlotInferTimeScale
  \/ GetSeries
  \/ GetTrimmedData
  \/ LoadShotJson
  \/ BuildSeries
  \/ Return

Spec == Init /\ [][Next]_vars

---------------------------------------------------------------------------
(* The aligner on its own: ax and twin hold any two ranges, as the plotted *)
(* data left them, and align_yaxis_zero (the viewer) or _align_yaxis_zero  *)
(* (the command line script) is called on them.  A call may follow another *)
(* one on the limits that one left.                                        *)

AlignOps == {"align_yaxis_zero", "_align_yaxis_zero"}

AlignInit ==
  /\ doc = Document(EndToEndExample)
  /\ shot = _load(doc)
  /\ res = NoCall
  /\ ax \in Ylims
  /\ twin \in Ylims
  /\ frame = ShotViewerFrame
  /\ dlg = NoDialog

AlignYaxisZero ==
  /\ res.op \in {"none"} \cup AlignOps
  /\ LET out == align_yaxis_zero(ax, twin)
     IN  /\ ax' = out.ax1
         /\ twin' = out.ax2
         /\ res' = Call("align_yaxis_zero", <<ax, twin>>,
                        IF out.exc = "none" THEN Ok(None) ELSE Raise(out.exc))
  /\ UNCHANGED <<doc, shot, frame, dlg>>

PlotAlignYaxisZero ==
  /\ res.op \in {"none"} \cup AlignOps
  /\ LET out == _align_yaxis_zero(ax, twin)
     IN  /\ ax' = out.ax1
         /\ twin' = out.ax2
         /\ res' = Call("_align_yaxis_zero", <<ax, twin>>,
                        IF out.exc = "none" THEN Ok(None) ELSE Raise(out.exc))
  /\ UNCHANGED <<doc, shot, frame, dlg>>

AlignNext ==
  \/ AlignYaxisZero
  \/ PlotAlignYaxisZero
  \/ Return

AlignSpec == AlignInit /\ [][AlignNext]_vars

---------------------------------------------------------------------------
(* The viewer: frame is the ShotViewerFrame after its constructor, which   *)
(* ends in _auto_load_json_files, and dlg the FileSettingsDialog that is   *)
(* open, if any.  Every action is one event handler run to its end, the    *)
(* _update_plot it calls included; while ShowModal runs only the handlers  *)
(* of the dialog are served.                                               *)

Constructed(v) ==
  /\ frame = v.self
  /\ ax = v.ax
  /\ twin = v.twin

ViewerInit ==
  /\ doc = Document(EndToEndExample)
  /\ shot = _load(doc)
  /\ res = NoCall
  /\ dlg = NoDialog
  /\ \E files_with_time \in Directories, auto \in AutoYlims :
       Constructed(_auto_load_json_files(ShotViewerFrame, files_with_time, auto))

Now == View(frame, ax, twin, "none")

Shown(v) ==
  /\ frame' = v.self
  /\ ax' = v.ax
  /\ twin' = v.twin

LoadFile ==
  /\ dlg.kind = "none"
  /\ \E slot \in {1, 2}, path \in DOMAIN Files, auto \in AutoYlims :
       Shown(_load_file(Now, slot, path, auto))
  /\ UNCHANGED <<doc, shot, res, dlg>>

ClearFile ==
  /\ dlg.kind = "none"
  /\ \E slot \in {1, 2}, auto \in AutoYlims :
       Shown(_clear_file(Now, slot, auto))
  /\ UNCHANGED <<doc, shot, res, dlg>>

(* EVT_CHECKBOX of the checkbox of a field *)
ToggleField ==
  /\ dlg.kind = "none"
  /\ \E key \in Keys, auto \in AutoYlims :
       Shown(_update_plot([frame EXCEPT !.field_checkboxes[key] = ~@], auto))
  /\ UNCHANGED <<doc, shot, res, dlg>>

(* EVT_CHECKBOX of the "2nd" checkbox of a field *)
ToggleSecondary ==
  /\ dlg.kind = "none"
  /\ \E key \in SecondaryKeys, auto \in AutoYlims :
       Shown(_update_plot([frame EXCEPT !.field_secondary[key] = ~@], auto))
  /\ UNCHANGED <<doc, shot, res, dlg>>

(* EVT_CHECKBOX of compare_cb *)
ToggleCompare ==
  /\ dlg.kind = "none"
  /\ \E auto \in AutoYlims :
       Shown(_update_plot([frame EXCEPT !.compare_cb = ~@], auto))
  /\ UNCHANGED <<doc, shot, res, dlg>>

OpenStyleDialog ==
  /\ dlg.kind = "none"
  /\ \E key \in StyledKeys, run \in StyleRuns, auto \in AutoYlims :
       Shown(_open_style_dialog(Now, key, run[1], run[2], auto))
  /\ UNCHANGED <<doc, shot, res, dlg>>

(* _open_file_settings up to ShowModal: nothing happens for an empty slot *)
OpenFileSettings ==
  /\ dlg.kind = "none"
  /\ \E slot \in {1, 2} :
       /\ Loaded(ShotOf(frame, slot))
       /\ dlg' = FileSettingsDialog(slot, ShotOf(frame, slot),
                                    SettingsOf(frame, slot))
  /\ UNCHANGED <<doc, shot, res, ax, twin, frame>>

Served(m) ==
  /\ Shown(m.view)
  /\ dlg' = m.dlg

DurationChange ==
  /\ dlg.kind = "settings"
  /\ \E value \in DialogDurations, auto \in AutoYlims :
       /\ value <= dlg.max_duration
       /\ Served(_on_duration_change(Now, dlg, value, auto))
  /\ UNCHANGED <<doc, shot, res>>

ResetMax ==
  /\ dlg.kind = "settings"
  /\ \E auto \in AutoYlims : Served(_on_reset_max(Now, dlg, auto))
  /\ UNCHANGED <<doc, shot, res>>

Defaults ==
  /\ dlg.kind = "settings"
  /\ \E auto \in AutoYlims : Served(_on_defaults(Now, dlg, auto))
  /\ UNCHANGED <<doc, shot, res>>

Save ==
  /\ dlg.kind = "settings"
  /\ \E auto \in AutoYlims : Served(_on_save(Now, dlg, auto))
  /\ UNCHANGED <<doc, shot, res>>

LoadSession ==
  /\ dlg.kind = "none"
  /\ \E session \in Sessions, auto \in AutoYlims :
       Shown(_load_session(Now, session, auto))
  /\ UNCHANGED <<doc, shot, res, dlg>>

(* the Cancel button or the close box: EndModal with no handler of the     *)
(* dialog                                                                  *)
Cancel ==
  /\ dlg.kind = "settings"
  /\ \E auto \in AutoYlims : Served(_open_file_settings(Now, dlg, auto))
  /\ UNCHANGED <<doc, shot, res>>

ViewerNext ==
  \/ LoadFile
  \/ ClearFile
  \/ ToggleField
  \/ ToggleSecondary
  \/ ToggleCompare
  \/ OpenStyleDialog
  \/ OpenFileSettings
  \/ LoadSession
  \/ DurationChange
  \/ ResetMax
  \/ Defaults
  \/ Save
  \/ Cancel

ViewerSpec == ViewerInit /\ [][ViewerNext]_vars

---------------------------------------------------------------------------
(* Hovering.  The viewer has loaded one of the sessions of HoverSessions   *)
(* and the pointer moves over the canvas; res holds the event and what the *)
(* handler gave the hover panel.  The handler assigns no attribute of the  *)
(* frame.                                                                  *)

HoverInit ==
  /\ doc = Document(EndToEndExample)
  /\ shot = _load(doc)
  /\ res = NoCall
  /\ dlg = NoDialog
  /\ \E session \in HoverSessions, auto \in AutoYlims :
       Constructed(_load_session(View(ShotViewerFrame, DefaultYlim, NoAxis, "none"),
                                 session, auto))

OnMouseMove ==
  /\ Idle
  /\ \E inaxes \in BOOLEAN, has_x \in BOOLEAN, x \in HoverTargets :
       res' = Call("_on_mouse_move", <<inaxes, has_x, x>>,
                   _on_mouse_move(frame, inaxes, has_x, x))
  /\ UNCHANGED <<doc, shot, ax, twin, frame, dlg>>

HoverNext ==
  \/ OnMouseMove
  \/ Return

HoverSpec == HoverInit /\ [][HoverNext]_vars

---------------------------------------------------------------------------
(* Definitions the properties are stated with.                             *)

(* the node the keys of path lead to from d through mappings only, Absent  *)
(* when a step meets a node that is not a mapping or that lacks the key    *)
Descend(d, path) ==
  LET node[i \in 0..Len(path)] ==
        IF i = 0 THEN d
        ELSE IF node[i - 1].k = "dict" /\ path[i] \in DOMAIN node[i - 1].sub
             THEN node[i - 1].sub[path[i]]
             ELSE Absent
  IN  node[Len(path)]

(* the number a node stands for, NaN when it stands for none *)
NumberOf(node) ==
  CASE node.k \in {"float", "bool"}                        -> Num(node.n)
    [] node.k = "str" /\ ParseFloat(node.s).exc = "none"   -> ParseFloat(node.s).val
    [] OTHER                                               -> NaN

(* C1: the nested-path lookup never raises; it returns the default as soon *)
(* as a step meets a node that is not a mapping or lacks the key, and the  *)
(* node the path leads to otherwise.                                       *)
C1_SafeGetNeverRaises ==
  res.op \in {"safe_get", "_safe_get"} =>
    LET node == Descend(res.arg[1], res.arg[2])
    IN  /\ res.out.exc = "none"
        /\ node = Absent => res.out.val = res.arg[3]
        /\ node # Absent => res.out.val = node

(* C1 witness: a lookup of three keys whose second step reaches null and   *)
(* gives the default.                                                      *)
C1_Witness ==
  /\ res.op = "safe_get"
  /\ res.arg[2] = <<"shot", "pressure", "bar">>
  /\ Descend(res.arg[1], <<"shot", "pressure">>) = None
  /\ res.out = Ok(NaN)

MappingRecords(records) ==
  \A i \in 1..Len(records) :
    /\ records[i].k = "dict"
    /\ "time" \in DOMAIN records[i].sub => records[i].sub["time"].k = "float"

(* C3: build_series returns normally on any list of mapping records, with  *)
(* NaN where an actual field or a setpoint field holds no number.          *)
C3_BuildSeriesNeverAborts ==
  (res.op = "build_series" /\ MappingRecords(res.arg)) =>
    /\ res.out.exc = "none"
    /\ \A i \in 1..Len(res.arg) :
         /\ res.out.val.pressure[i] =
              NumberOf(Descend(res.arg[i], <<"shot", "pressure">>))
         /\ res.out.val.motor_power[i] =
              NumberOf(Descend(res.arg[i], <<"sensors", "motor_power">>))
         /\ res.out.val.goal_pressure[i] =
              NumberOf(Descend(res.arg[i], <<"shot", "setpoints", "pressure">>))

(* C4: every extracted series has one sample per record: the series of    *)
(* get_series, the time sequence and the records have the same length for  *)
(* every path, a path absent from every record gives NaN throughout, and   *)
(* every list build_series returns has the length of the records.          *)
C4_SeriesAligned ==
  /\ shot.exc = "none" =>
       /\ Len(shot.val.records) = Len(RecordsOf(doc))
       /\ Len(shot.val.time_s) = Len(shot.val.records)
  /\ res.op = "get_series" =>
       /\ res.out.exc = "none"
       /\ Len(res.out.val) = Len(shot.val.time_s)
       /\ Len(res.out.val) = Len(shot.val.records)
       /\ (\A i \in 1..Len(shot.val.records) :
             Descend(shot.val.records[i], res.arg) = Absent)
          => \A i \in 1..Len(res.out.val) : res.out.val[i] = NaN
  /\ (res.op = "build_series" /\ res.out.exc = "none") =>
       \A name \in DOMAIN res.out.val : Len(res.out.val[name]) = Len(res.arg)

(* C4 witness: a series of three samples for a path that every one of the *)
(* three records lacks.                                                    *)
C4_Witness ==
  /\ res.op = "get_series"
  /\ Len(shot.val.records) = 3
  /\ Len(shot.val.time_s) = 3
  /\ \A i \in 1..3 : Descend(shot.val.records[i], res.arg) = Absent
  /\ res.out = Ok(<<NaN, NaN, NaN>>)

(* the raw time of a record: its "time" as a number, 0 when it has none *)
RawOf(r) ==
  IF "time" \in DOMAIN r.sub THEN NumberOf(r.sub["time"]).n ELSE 0

(* elapsed is (raw[i] - raw[1]) * multiplier for every i *)
NormalizedBy(elapsed, records, multiplier) ==
  /\ Len(elapsed) = Len(records)
  /\ \A i \in 1..Len(records) :
       elapsed[i] = (RawOf(records[i]) - RawOf(records[1])) * multiplier
  /\ records # <<>> => elapsed[1] = 0

Steps(times) == {i \in 1..(Len(times) - 1) : times[i + 1] # times[i]}

StepAt(times, i) == Abs(times[i + 1] - times[i])

(* the r-th smallest of the non-zero differences, r in 1..n *)
Ranked(times, r) ==
  CHOOSE m \in {StepAt(times, i) : i \in Steps(times)} :
    /\ Cardinality({i \in Steps(times) : StepAt(times, i) < m}) < r
    /\ r <= Cardinality({i \in Steps(times) : StepAt(times, i) <= m})

(* 0.001 for a difference of 5 or more, 1.0 below *)
Classify(step) == IF step >= MedThreshold THEN MilliScale ELSE UnitScale

InferCall == res.op \in {"infer_time_scale", "_infer_time_scale_ms_to_s"}

(* C6: the inference decides on the element at index floor(n/2) of the     *)
(* sorted n non-zero absolute differences: 0.001 when it is >= 5, else     *)
(* 1.0; the result is one of the two.                                      *)
C6_MedianDecides ==
  InferCall =>
    LET n == Cardinality(Steps(res.arg))
    IN  /\ res.out.val \in {MilliScale, UnitScale}
        /\ n > 0 => res.out.val = Classify(Ranked(res.arg, (n \div 2) + 1))

(* C6 witness: three non-zero differences, the middle one exactly 5. *)
C6_Witness ==
  /\ res.op = "infer_time_scale"
  /\ Cardinality(Steps(res.arg)) = 3
  /\ Ranked(res.arg, 1) < MedThreshold
  /\ Ranked(res.arg, 2) = MedThreshold
  /\ res.out.val = MilliScale

(* C7 as stated: with an even number of non-zero differences the smaller   *)
(* of the two middle ones decides.                                         *)
C7_LowerMiddleDecides ==
  InferCall =>
    LET n == Cardinality(Steps(res.arg))
    IN  (n > 0 /\ n % 2 = 0) =>
          res.out.val = Classify(Ranked(res.arg, n \div 2))

(* C7 amended: with an even number of non-zero differences the larger of   *)
(* the two middle ones (the upper-middle element) decides.                 *)
C7_UpperMiddleDecides ==
  InferCall =>
    LET n == Cardinality(Steps(res.arg))
        lo == Ranked(res.arg, n \div 2)
        hi == Ranked(res.arg, (n \div 2) + 1)
    IN  (n > 0 /\ n % 2 = 0) =>
          /\ lo <= hi
          /\ res.out.val = Classify(IF lo > hi THEN lo ELSE hi)

(* C7 witness: two non-zero differences, one below 5 and one above, read   *)
(* as milliseconds.                                                        *)
C7_Witness ==
  /\ res.op = "infer_time_scale"
  /\ Cardinality(Steps(res.arg)) = 2
  /\ Ranked(res.arg, 1) < MedThreshold
  /\ Ranked(res.arg, 2) >= MedThreshold
  /\ res.out.val = MilliScale

(* C8: fewer than two samples, or no two consecutive times that differ,    *)
(* give 1.0.                                                               *)
C8_NoInferenceGivesOne ==
  (InferCall /\ (Len(res.arg) < 2 \/ Steps(res.arg) = {})) =>
    res.out.val = UnitScale

(* C8 witness: three equal timestamps. *)
C8_Witness ==
  /\ res.op = "infer_time_scale"
  /\ Len(res.arg) = 3
  /\ res.arg[1] = res.arg[2] /\ res.arg[2] = res.arg[3]
  /\ res.out.val = UnitScale

(* the raw times rise by the same step d > 0 from each sample to the next *)
ConstantStep(times, d) ==
  /\ Len(times) >= 2
  /\ d > 0
  /\ \A i \in 1..(Len(times) - 1) : times[i + 1] - times[i] = d

(* C9: a constant positive step d gives 0.001 when d >= 5 and 1.0 when     *)
(* d < 5; raw [0, 100, 200, 300] normalizes to [0.0, 0.1, 0.2, 0.3] and    *)
(* raw [0.0, 0.1, 0.2, 0.3] to itself.                                     *)
C9_ConstantStep ==
  /\ InferCall =>
       \A i \in 1..(Len(res.arg) - 1) :
         LET d == res.arg[i + 1] - res.arg[i]
         IN  ConstantStep(res.arg, d) =>
               res.out.val = (IF d >= MedThreshold THEN MilliScale ELSE UnitScale)
  /\ shot.exc = "none" =>
       LET raw == [i \in 1..Len(shot.val.records) |-> RawOf(shot.val.records[i])]
       IN  \A i \in 1..(Len(raw) - 1) :
             LET d == raw[i + 1] - raw[i]
             IN  ConstantStep(raw, d) =>
                   shot.val.time_s =
                     [j \in 1..Len(raw) |->
                        (j - 1) * d * (IF d >= MedThreshold THEN MilliScale
                                                            ELSE UnitScale)]
  /\ doc = Document(MillisExample) =>
       /\ shot.exc = "none"
       /\ shot.val.time_s = <<0, 1000, 2000, 3000>>
  /\ doc = Document(SecondsExample) =>
       /\ shot.exc = "none"
       /\ shot.val.time_s = <<0, 1000, 2000, 3000>>
       /\ \A i \in 1..4 :
            shot.val.time_s[i] = RawOf(shot.val.records[i]) * UnitScale

(* C9 witness: the stream [0, 100, 200, 300], inferred as milliseconds    *)
(* and loaded as [0.0, 0.1, 0.2, 0.3].                                     *)
C9_Witness ==
  /\ doc = Document(MillisExample)
  /\ res.op = "infer_time_scale"
  /\ res.arg = <<0, 1000, 2000, 3000>>
  /\ res.out.val = MilliScale
  /\ shot.exc = "none"
  /\ shot.val.time_s = <<0, 1000, 2000, 3000>>

(* C10: the trim index is the number of leading samples whose elapsed time *)
(* is <= the bound: the index of the first sample over the bound, or the   *)
(* length; it lies in 0..len(time_s); trim_index([0,1,2,3,4], 2.5) is 3.   *)
C10_TrimIndex ==
  res.op = "get_trimmed_data" =>
    LET time_s == shot.val.time_s
        idx == res.out.val
    IN  /\ idx \in 0..Len(time_s)
        /\ "trim_duration" \in DOMAIN res.arg =>
             /\ \A i \in 1..idx : time_s[i] <= res.arg["trim_duration"]
             /\ idx < Len(time_s) => time_s[idx + 1] > res.arg["trim_duration"]
        /\ (doc = Document(TrimExample) /\ res.arg = TrimTo(25000)) => idx = 3

(* C10 witness: the times [0, 1, 2, 3, 4] trimmed to 2.5 s. *)
C10_Witness ==
  /\ doc = Document(TrimExample)
  /\ shot.val.time_s = <<0, 10000, 20000, 30000, 40000>>
  /\ res.op = "get_trimmed_data"
  /\ res.arg = TrimTo(25000)
  /\ res.out.val = 3

(* C11: with no stored trim setting the trim index is len(time_s), so the  *)
(* default view leaves no sample out, whatever the raw times are.          *)
C11_DefaultTrimKeepsAll ==
  (res.op = "get_trimmed_data" /\ DOMAIN res.arg = {}) =>
    res.out.val = Len(shot.val.time_s)

(* an aligner has been called; res.arg holds the limits it was given *)
AlignCall == res.op \in AlignOps

(* the range widened to hold zero *)
Widened(lim) == <<Min(lim[1], Zero), Max(lim[2], Zero)>>

ContainsZero(lim) == Leq(lim[1], Zero) /\ Leq(Zero, lim[2])

(* where zero lies in a range that holds it: the length below zero over    *)
(* the length above it, -min / max, infinite when nothing is above.  Zero  *)
(* is at the fraction (0 - min) / (max - min) = r / (1 + r) of the range,  *)
(* so two ranges have zero at the same fraction when they have the same r. *)
ZeroRatio(lim) ==
  IF Lt(Zero, lim[2]) THEN Div(Neg(lim[1]), lim[2]) ELSE Inf

(* C12: for any two input ranges, after the aligner both ranges contain    *)
(* zero and zero lies at the same fractional position of both.             *)
C12_ZeroAtSamePosition ==
  AlignCall =>
    /\ ContainsZero(ax)
    /\ ContainsZero(twin)
    /\ ZeroRatio(ax) = ZeroRatio(twin)

(* the range `after` holds every value of the range `before`, and has its  *)
(* maximum when it is another range                                        *)
NotClipped(before, after) ==
  /\ Leq(before[2], after[2])
  /\ after # before => after[2] = before[2]
  /\ Leq(after[1], before[1])

(* C13: the aligner never clips: the maximum it leaves on an axis is >=    *)
(* the one it found (the same one when it changes the axis) and the        *)
(* minimum it leaves is <= the one it found.                               *)
C13_NeverClips ==
  AlignCall =>
    /\ NotClipped(res.arg[1], ax)
    /\ NotClipped(res.arg[2], twin)

(* the range from lo to hi, two integers *)
Ylim(lo, hi) == <<FromInt(lo), FromInt(hi)>>

(* both widened ranges end at zero, or both start at zero: the aligner     *)
(* returns before it computes a ratio                                      *)
Degenerate(lim1, lim2) ==
  \/ Widened(lim1)[2] = Zero /\ Widened(lim2)[2] = Zero
  \/ Widened(lim1)[1] = Zero /\ Widened(lim2)[1] = Zero

(* max(ratio1, ratio2) of the widened ranges *)
TargetRatio(lim1, lim2) ==
  Max(ZeroRatio(Widened(lim1)), ZeroRatio(Widened(lim2)))

(* (-target_ratio * max, max) *)
Scaled(lim, target_ratio) ==
  <<Neg(Mul(target_ratio, Widened(lim)[2])), Widened(lim)[2]>>

(* the call on the ranges (-2, 10) and (-1, 2) *)
AlignExample == AlignCall /\ res.arg = <<Ylim(-2, 10), Ylim(-1, 2)>>

(* the example of C14: ratios 0.2 and 0.5, target 0.5, axis 1 becomes      *)
(* (-5, 10) and axis 2 stays (-1, 2)                                       *)
AlignExampleResult ==
  /\ ZeroRatio(res.arg[1]) = Div(FromInt(1), FromInt(5))
  /\ ZeroRatio(res.arg[2]) = Div(FromInt(1), FromInt(2))
  /\ TargetRatio(res.arg[1], res.arg[2]) = Div(FromInt(1), FromInt(2))
  /\ ax = Ylim(-5, 10)
  /\ twin = Ylim(-1, 2)

C15_Idempotent ==
  [][(AlignCall /\ res.out.exc = "none" /\ res'.op \in AlignOps) =>
       (ax' = ax /\ twin' = twin)]_vars

(* C16: when, after widening to include zero, both maxima are 0 or both    *)
(* minima are 0, the call leaves the limits of both axes exactly as it     *)
(* found them.                                                             *)
C16_DegenerateUntouched ==
  (AlignCall /\ Degenerate(res.arg[1], res.arg[2])) =>
    /\ res.out.exc = "none"
    /\ ax = res.arg[1]
    /\ twin = res.arg[2]

(* C16 witness: a call on the all-positive ranges (1, 5) and (2, 3), which *)
(* widen to (0, 5) and (0, 3), has left (1, 5) and (2, 3).                 *)
C16_Witness ==
  /\ res.op = "align_yaxis_zero"
  /\ res.arg = <<Ylim(1, 5), Ylim(2, 3)>>
  /\ Degenerate(res.arg[1], res.arg[2])
  /\ ax = Ylim(1, 5)
  /\ twin = Ylim(2, 3)

(* the keys of shot.setpoints that build_series makes goal series of *)
GoalKeys == {"pressure", "flow", "power"}

(* the goal series of build_series for the key *)
GoalSeries(out, key) ==
  CASE key = "pressure" -> out.goal_pressure
    [] key = "flow"     -> out.goal_flow
    [] key = "power"    -> out.goal_power

(* the record with shot.setpoints.active set to flag (left out when flag   *)
(* is Absent); a record without a setpoints mapping is left as it is       *)
SetActive(r, flag) ==
  IF Descend(r, <<"shot", "setpoints">>).k # "dict" THEN r
  ELSE LET shot_ == r.sub["shot"]
           sp    == shot_.sub["setpoints"]
           rest  == [key \in DOMAIN sp.sub \ {"active"} |-> sp.sub[key]]
       IN  Dict(("shot" :> Dict(("setpoints" :> Dict(Item("active", flag) @@ rest))
                                @@ shot_.sub))
                @@ r.sub)

ActiveFlags == {Absent, Str("pressure"), Str("flow")}

(* C17: in what build_series returns, the goal sample of a key at record i *)
(* is the number at shot.setpoints.<key> when that is present and not      *)
(* null, and NaN otherwise; whatever the 'active' flags of the records are *)
(* set to, the three goal series are the same.                             *)
C17_GoalsPerKey ==
  (res.op = "build_series" /\ res.out.exc = "none") =>
    /\ \A i \in 1..Len(res.arg), key \in GoalKeys :
         LET node == Descend(res.arg[i], <<"shot", "setpoints", key>>)
         IN  /\ Len(GoalSeries(res.out.val, key)) = Len(res.arg)
             /\ node \in {Absent, None} => GoalSeries(res.out.val, key)[i] = NaN
             /\ node \notin {Absent, None} =>
                  Ok(GoalSeries(res.out.val, key)[i]) = Float(node)
    /\ \A flags \in [1..Len(res.arg) -> ActiveFlags] :
         LET other == build_series([i \in 1..Len(res.arg) |->
                                      SetActive(res.arg[i], flags[i])])
         IN  /\ other.exc = "none"
             /\ \A key \in GoalKeys :
                  GoalSeries(other.val, key) = GoalSeries(res.out.val, key)

(* C17 witness: a record whose setpoints hold a pressure goal and a flow   *)
(* goal with 'active' naming pressure: both goals have their sample, the   *)
(* power goal is NaN, and another record has no goal at all.               *)
C17_Witness ==
  /\ res.op = "build_series"
  /\ res.out.exc = "none"
  /\ \E i, j \in 1..Len(res.arg) :
       /\ res.out.val.active[i] = Str("pressure")
       /\ res.out.val.goal_pressure[i] = Num(90)
       /\ res.out.val.goal_flow[i] = Num(20)
       /\ res.out.val.goal_power[i] = NaN
       /\ res.out.val.active[j] = None
       /\ res.out.val.goal_pressure[j] = NaN

---------------------------------------------------------------------------
(* The top-level shape of the document.                                    *)

(* the document is not an object, or has no 'data', or 'data' is no array *)
MalformedShape(document) ==
  \/ ~IsDict(document)
  \/ "data" \notin DOMAIN document.sub
  \/ document.sub["data"].k # "list"

(* C20: a document whose root is not an object, or that lacks the key      *)
(* 'data', or whose 'data' is not an array is rejected by both loaders:    *)
(* ShotData(path) raises and leaves no shot, load_shot_json raises and     *)
(* returns no records, and no series is ever built from it.                *)
C20_MalformedRejected ==
  MalformedShape(doc) =>
    /\ shot.exc # "none"
    /\ res.op = "load_shot_json" => res.out.exc # "none"
    /\ res.op \notin {"get_series", "get_trimmed_data", "build_series"}

(* C20 witness: load_shot_json has raised ValueError on a document whose   *)
(* 'data' is an object, and ShotData raised ValueError on it too.          *)
C20_Witness ==
  /\ doc = Dict("data" :> Dict(NoItems))
  /\ shot = Raise("ValueError")
  /\ res.op = "load_shot_json"
  /\ res.out = Raise("ValueError")

---------------------------------------------------------------------------
(* The overlay of two shots.                                               *)

(* the last _update_plot took the compare branch *)
Compared == "compare" \in DOMAIN frame.plot_data /\ frame.plot_data.compare

(* the traces of shot 1 and of shot 2 for field i of plot_data["fields"] *)
Trace1(i) == frame.lines[2 * i - 1]

Trace2(i) == frame.lines[2 * i]

(* C18: in compare mode the two traces of every selected field, whatever   *)
(* style is stored for it, have the same color and different line          *)
(* patterns.                                                               *)
C18_TracesDistinguishable ==
  Compared =>
    /\ Len(frame.lines) = 2 * Len(frame.plot_data.fields)
    /\ \A i \in DOMAIN frame.plot_data.fields :
         /\ Trace1(i).color = Trace2(i).color
         /\ Trace1(i).linestyle # Trace2(i).linestyle

(* the time sequence and the series of the selected fields that compare    *)
(* mode renders for a shot under its slot's settings                       *)
Rendered(shot_, settings) ==
  LET trim == get_trimmed_data(shot_, settings)
      selected == _get_selected_fields(frame)
  IN  [time   |-> Prefix(shot_.time_s, trim),
       series |-> [k \in {Join(selected[i].path) : i \in DOMAIN selected} |->
                    Prefix(get_series(shot_, SelectSeq(selected,
                             LAMBDA f : Join(f.path) = k)[1].path).val, trim)]]

(* what plot_data and the figure hold of each shot is what Rendered gives  *)
(* for that shot and that slot's settings                                  *)
RenderedOwn ==
  Compared =>
    LET own1 == Rendered(frame.shot1, frame.shot1_settings)
        own2 == Rendered(frame.shot2, frame.shot2_settings)
    IN  /\ frame.plot_data.time1 = own1.time
        /\ frame.plot_data.time2 = own2.time
        /\ frame.plot_data.series1 = own1.series
        /\ frame.plot_data.series2 = own2.series
        /\ Len(frame.lines) = 2 * Len(frame.plot_data.fields)
        /\ \A i \in DOMAIN frame.plot_data.fields :
             /\ Trace1(i).x = own1.time
             /\ Trace1(i).y = own1.series[frame.plot_data.fields[i][1]]
             /\ Trace2(i).x = own2.time
             /\ Trace2(i).y = own2.series[frame.plot_data.fields[i][1]]

(* a step between two overlays that leaves a slot's shot and settings as   *)
(* they were leaves the times and the series rendered for that shot as     *)
(* they were, for every field selected before and after                    *)
OtherUntouched ==
  (Compared /\ Compared') =>
    LET both == DOMAIN frame.plot_data.series1 \cap DOMAIN frame.plot_data.series1'
    IN  /\ (frame.shot1' = frame.shot1 /\ frame.shot1_settings' = frame.shot1_settings)
             => /\ frame.plot_data.time1' = frame.plot_data.time1
                /\ \A k \in both :
                     frame.plot_data.series1'[k] = frame.plot_data.series1[k]
        /\ (frame.shot2' = frame.shot2 /\ frame.shot2_settings' = frame.shot2_settings)
             => /\ frame.plot_data.time2' = frame.plot_data.time2
                /\ \A k \in both :
                     frame.plot_data.series2'[k] = frame.plot_data.series2[k]

(* C19: in compare mode the time sequence and every series rendered for a  *)
(* shot are those of that shot's own records cut by that slot's own trim   *)
(* setting, in every state a handler starts from, and a step that changes  *)
(* the other slot's trim setting or shot leaves them unchanged.            *)
C19_OwnTimeBaseAndTrim == [][RenderedOwn /\ OtherUntouched]_vars

(* C19 witness: an overlay of the two-sample shot, untrimmed, and the      *)
(* three-sample shot trimmed to 0.1 s: two samples are drawn for shot 1    *)
(* and one for shot 2, from each shot's own zero.                          *)
C19_Witness ==
  /\ Compared
  /\ dlg.kind = "none"
  /\ frame.shot1.path = "first"
  /\ frame.shot2.path = "second"
  /\ frame.shot1_settings = NoSettings
  /\ frame.shot2_settings = TrimTo(MinDuration)
  /\ frame.plot_data.time1 = <<0, 1000>>
  /\ frame.plot_data.time2 = <<0>>
  /\ frame.plot_data.series1["shot.pressure"] = <<Num(90), Num(85)>>
  /\ frame.plot_data.series2["shot.pressure"] = <<Num(20)>>

(* C23: end to end, the document of the two records                        *)
(* {time: 0, shot.pressure: 9.0} and {time: 100, shot.pressure: 8.5} loads  *)
(* with the elapsed times [0.0, 0.1], and its pressure series is           *)
(* [9.0, 8.5], in the viewer (ShotData, get_series) and in the plotter      *)
(* (load_shot_json, build_series).                                         *)
C23_EndToEnd ==
  doc = Document(EndToEndExample) =>
    /\ shot.exc = "none"
    /\ shot.val.time_s = <<0, 1000>>
    /\ (res.op = "get_series" /\ res.arg = <<"shot", "pressure">>)
         => res.out = Ok(<<Num(90), Num(85)>>)
    /\ res.op = "build_series" =>
         /\ res.out.exc = "none"
         /\ res.out.val.time_s = <<0, 1000>>
         /\ res.out.val.pressure = <<Num(90), Num(85)>>

(* C23 witness: get_series(["shot", "pressure"]) on the loaded example *)
C23_Witness ==
  /\ doc = Document(EndToEndExample)
  /\ shot.exc = "none"
  /\ shot.val.time_s = <<0, 1000>>
  /\ res.op = "get_series"
  /\ res.arg = <<"shot", "pressure">>
  /\ res.out = Ok(<<Num(90), Num(85)>>)

(* C29: for finite input ranges the aligner asks set_ylim for finite       *)
(* limits only, also when one axis has nothing above zero and the other    *)
(* has: no call ends with the ValueError by which set_ylim refuses a limit  *)
(* that is not finite, and the limits left on both axes are finite.        *)
C29_OnlyFiniteLimits ==
  AlignCall =>
    /\ res.out.exc = "none"
    /\ \A i \in {1, 2} : IsFinite(ax[i]) /\ IsFinite(twin[i])

(* the slots and the stored plot data of a frame *)
Held(self) ==
  <<self.shot1, self.shot1_settings, self.shot2, self.shot2_settings,
    self.plot_data>>

(* C21: a load that fails (its try block ends in the message box) leaves    *)
(* the shot of the slot, the settings of the slot, the other slot and the  *)
(* stored plot data as they were before _load_file was called, whatever    *)
(* the state the viewer is in when the file is picked.                     *)
C21_FailedLoadChangesNothing ==
  dlg.kind = "none" =>
    \A slot \in {1, 2}, path \in DOMAIN Files, auto \in AutoYlims :
      LET tried == Tried(Now, slot, ShotData(path), auto)
      IN  tried.exc # "none" => Held(tried.self) = Held(frame)

(* the ShotData of a slot is what ShotData(path) made of its file *)
AsConstructed(slot) == Loaded(slot) => slot = ShotData(slot.path).val

(* a step that leaves the shot of a file in a slot leaves its records and  *)
(* its elapsed times as they are                                           *)
ShotKept(before, after) ==
  (Loaded(before) /\ Loaded(after) /\ after.path = before.path) =>
    /\ after.records = before.records
    /\ after.time_s = before.time_s

(* C22: a ShotData is immutable after construction: in every state a       *)
(* handler starts from, the shot of a slot has the records and the elapsed *)
(* times that its constructor gave it, and no handler changes them while   *)
(* the shot stays in its slot; trimming cuts copies only.                  *)
C22_ShotImmutable ==
  [][/\ AsConstructed(frame.shot1)
     /\ AsConstructed(frame.shot2)
     /\ ShotKept(frame.shot1, frame'.shot1)
     /\ ShotKept(frame.shot2, frame'.shot2)]_vars

(* C22 witness: the three-sample shot drawn cut to one sample, and held    *)
(* with its three samples                                                  *)
C22_Witness ==
  /\ Compared
  /\ dlg.kind = "none"
  /\ frame.shot2.path = "second"
  /\ frame.shot2_settings = TrimTo(MinDuration)
  /\ frame.plot_data.time2 = <<0>>
  /\ frame.shot2.time_s = <<0, 10000, 20000>>
  /\ Len(frame.shot2.records) = 3

(* the keys of the field list of plot_data *)
FieldKeys(plot_data) == {plot_data.fields[i][1] : i \in DOMAIN plot_data.fields}

(* series holds one series for every entry of the field list and no other, *)
(* each as long as time                                                    *)
Parallel(plot_data, time, series) ==
  /\ DOMAIN series = FieldKeys(plot_data)
  /\ Cardinality(DOMAIN series) = Len(plot_data.fields)
  /\ \A k \in DOMAIN series : Len(series[k]) = Len(time)

(* C24: after every render that draws data, each series stored in          *)
(* plot_data has as many samples as the stored time sequence of the same   *)
(* shot (time / series in single mode, time1 / series1 and time2 / series2 *)
(* in compare mode), with one series per entry of the field list.          *)
C24_SeriesParallel ==
  DOMAIN frame.plot_data # {} =>
    IF frame.plot_data.compare
    THEN /\ Parallel(frame.plot_data, frame.plot_data.time1, frame.plot_data.series1)
         /\ Parallel(frame.plot_data, frame.plot_data.time2, frame.plot_data.series2)
    ELSE Parallel(frame.plot_data, frame.plot_data.time, frame.plot_data.series)

(* C24 witness: the three-sample shot alone in the viewer, drawn cut to    *)
(* one sample: one time and one sample in each of the two series           *)
C24_Witness ==
  /\ DOMAIN frame.plot_data # {}
  /\ ~frame.plot_data.compare
  /\ ~Loaded(frame.shot1)
  /\ Loaded(frame.shot2)
  /\ frame.shot2.path = "second"
  /\ Len(frame.shot2.time_s) = 3
  /\ frame.plot_data.time = <<0>>
  /\ Len(frame.plot_data.fields) = 2
  /\ frame.plot_data.series["shot.pressure"] = <<Num(20)>>
  /\ frame.plot_data.series["shot.flow"] = <<Num(10)>>

(* plot_data and the traces are those of one shot under the given settings *)
SingleOf(shot_, settings) ==
  LET own == Rendered(shot_, settings)
  IN  /\ frame.plot_data.time = own.time
      /\ frame.plot_data.series = own.series
      /\ Len(frame.lines) = Len(frame.plot_data.fields)
      /\ \A i \in DOMAIN frame.plot_data.fields :
           /\ frame.lines[i].x = own.time
           /\ frame.lines[i].y = own.series[frame.plot_data.fields[i][1]]

(* C30: what is drawn is an overlay exactly when the compare checkbox is   *)
(* set and both slots hold a shot; otherwise it is the shot of slot 1 when *)
(* slot 1 is loaded and the shot of slot 2 when only slot 2 is, cut by the *)
(* settings of the slot of that shot.                                      *)
C30_RenderMode ==
  DOMAIN frame.plot_data # {} =>
    /\ frame.plot_data.compare <=>
         (frame.compare_cb /\ Loaded(frame.shot1) /\ Loaded(frame.shot2))
    /\ ~frame.plot_data.compare =>
         IF Loaded(frame.shot1)
         THEN SingleOf(frame.shot1, frame.shot1_settings)
         ELSE Loaded(frame.shot2) /\ SingleOf(frame.shot2, frame.shot2_settings)

(* C30 witness: the compare checkbox is set but only slot 2 holds a shot,  *)
(* the three-sample one with the trim 0.1 s: it is drawn alone, cut to one *)
(* sample by the settings of slot 2, while slot 1 has no settings.         *)
C30_Witness ==
  /\ DOMAIN frame.plot_data # {}
  /\ frame.compare_cb
  /\ ~frame.plot_data.compare
  /\ ~Loaded(frame.shot1)
  /\ Loaded(frame.shot2)
  /\ frame.shot2.path = "second"
  /\ frame.shot1_settings = NoSettings
  /\ frame.shot2_settings = TrimTo(MinDuration)
  /\ frame.plot_data.time = <<0>>
  /\ Len(frame.lines) = 2
  /\ frame.lines[1].x = <<0>>

(* the slot a FileSettingsDialog is not about *)
OtherSlot(slot) == 3 - slot

(* closing the open dialog now with Cancel or the close box leaves the     *)
(* settings that the slot had when the dialog was opened                   *)
CancelRestores ==
  (dlg.kind = "settings" /\ ~dlg.saved) =>
    \A auto \in AutoYlims :
      LET closed == _open_file_settings(Now, dlg, auto)
      IN  /\ closed.dlg.kind = "none"
          /\ SettingsOf(closed.view.self, dlg.slot) = dlg.original_settings
          /\ SettingsOf(closed.view.self, OtherSlot(dlg.slot))
               = SettingsOf(frame, OtherSlot(dlg.slot))

(* opening the dialog changes no settings, and what the dialog keeps as    *)
(* the original settings are the settings of its slot at that time         *)
OpeningKeeps ==
  (dlg.kind = "none" /\ dlg'.kind = "settings") =>
    /\ frame' = frame
    /\ dlg'.original_settings = SettingsOf(frame, dlg'.slot)
    /\ ~dlg'.saved

(* while the dialog is open the original settings it keeps, its slot and   *)
(* the settings of the other slot stay as they are                         *)
PreviewKeeps ==
  (dlg.kind = "settings" /\ dlg'.kind = "settings") =>
    /\ dlg'.slot = dlg.slot
    /\ dlg'.original_settings = dlg.original_settings
    /\ SettingsOf(frame', OtherSlot(dlg.slot)) = SettingsOf(frame, OtherSlot(dlg.slot))

(* C27: cancelling the file-settings dialog is a full rollback: after any  *)
(* live previews (spin control, "Max"), closing the dialog without Save or *)
(* Defaults leaves the slot with the settings it had when the dialog was   *)
(* opened, and the settings of the other slot are untouched throughout.    *)
C27_CancelRollsBack == [][CancelRestores /\ OpeningKeeps /\ PreviewKeeps]_vars

(* C27 witness: the dialog of slot 2, opened on empty settings, with a     *)
(* live preview of 0.1 s in place and not saved                            *)
C27_Witness ==
  /\ dlg.kind = "settings"
  /\ ~dlg.saved
  /\ dlg.slot = 2
  /\ dlg.original_settings = NoSettings
  /\ frame.shot2_settings = TrimTo(MinDuration)
  /\ frame.shot2.path = "second"
  /\ SettingsOf(_open_file_settings(Now, dlg,
       <<<<FromInt(-1), FromInt(2)>>, <<FromInt(0), FromInt(10)>>>>).view.self, 2)
       = NoSettings

(* C28: whatever the viewer has done (auto-load, load file, clear file,    *)
(* file-settings dialog, session load), a slot that holds no shot has      *)
(* empty settings.                                                         *)
C28_NoSettingsWithoutShot ==
  /\ ~Loaded(frame.shot1) => DOMAIN frame.shot1_settings = {}
  /\ ~Loaded(frame.shot2) => DOMAIN frame.shot2_settings = {}

(* the presentation state of a frame: the file of each slot ("" for an     *)
(* empty slot), the settings of each slot, the compare flag, the selected  *)
(* fields, the secondary-axis flags and the styles                         *)
Presentation(self) ==
  [shot1_path       |-> IF Loaded(self.shot1) THEN self.shot1.path ELSE "",
   shot2_path       |-> IF Loaded(self.shot2) THEN self.shot2.path ELSE "",
   shot1_settings   |-> self.shot1_settings,
   shot2_settings   |-> self.shot2_settings,
   compare_mode     |-> self.compare_cb,
   field_checkboxes |-> self.field_checkboxes,
   field_secondary  |-> self.field_secondary,
   field_styles     |-> self.field_styles]

(* the frames a session is loaded into: a viewer with nothing loaded, the  *)
(* viewer of SavedFrame, and the viewer the session was saved from         *)
LoadTargets == {ShotViewerFrame, SavedFrame, frame}

(* C25: a session saved from the viewer and loaded again, into whatever    *)
(* viewer, with the shot files still there, restores the presentation that *)
(* was saved: the file of each slot, the settings of each slot, the        *)
(* compare flag, the selected fields, the secondary flags and the styles.  *)
C25_SessionRoundTrip ==
  dlg.kind = "none" =>
    \A target \in LoadTargets, auto \in AutoYlims :
      Presentation(_load_session(View(target, ax, twin, "none"),
                                 SessionOf(frame), auto).self)
        = Presentation(frame)

(* C25 witness: the viewer after the session of SavedFrame was loaded; it  *)
(* shows the overlay of the two shots, and its own session loaded into an  *)
(* empty viewer gives the same presentation                                *)
C25_Witness ==
  /\ dlg.kind = "none"
  /\ Presentation(frame) = Presentation(SavedFrame)
  /\ DOMAIN frame.plot_data # {}
  /\ frame.plot_data.compare
  /\ frame.plot_data.time1 = <<0>>
  /\ Presentation(_load_session(View(ShotViewerFrame, DefaultYlim, NoAxis, "none"),
                                SessionOf(frame),
                                <<<<FromInt(-1), FromInt(2)>>,
                                  <<FromInt(0), FromInt(10)>>>>).self)
       = Presentation(SavedFrame)

(* C26.  Hovering over a drawn plot. *)

(* the pointer is over the axes at a time and there is stored plot data *)
HoverRead ==
  /\ res.op = "_on_mouse_move"
  /\ res.arg[1] /\ res.arg[2]
  /\ DOMAIN frame.plot_data # {}

(* what the hover panel can show for a field of a series: a sample of the  *)
(* series as format_value writes it, or N/A when there is no sample        *)
Texts(series, field, time_) ==
  IF time_ = <<>> THEN {"N/A"}
  ELSE {format_value(series[field[1]][i], field[3]) : i \in DOMAIN series[field[1]]}

(* the line of a field over one shot and over two *)
SingleLine(field, text) ==
  color_square(field[4]) \o " <b>" \o field[2] \o ":</b> " \o text

CompareLine(field, text1, name1, text2, name2) ==
  SingleLine(field, text1) \o " (" \o name1 \o ") | " \o text2 \o " (" \o name2 \o ")"

(* every field of the overlay has its line, with N/A for a shot that has   *)
(* no sample                                                               *)
CompareReported(pd, lines) ==
  /\ Len(lines) = 1 + Len(pd.fields)
  /\ \A i \in DOMAIN pd.fields :
       \E text1 \in Texts(pd.series1, pd.fields[i], pd.time1),
          text2 \in Texts(pd.series2, pd.fields[i], pd.time2) :
         lines[i + 1] = CompareLine(pd.fields[i], text1, pd.shot1_name,
                                    text2, pd.shot2_name)

(* every field of the single shot has its line *)
SingleReported(pd, lines) ==
  /\ Len(lines) = 1 + Len(pd.fields)
  /\ \A i \in DOMAIN pd.fields :
       \E text \in Texts(pd.series, pd.fields[i], pd.time) :
         lines[i + 1] = SingleLine(pd.fields[i], text)

(* C26 as stated: over any stored plot data, a trimmed time sequence of    *)
(* length 0 in either shot included, _on_mouse_move does not fail, reads   *)
(* no series outside its bounds, and reports N/A for every field of a shot *)
(* that has no sample.                                                     *)
C26_HoverReportsNA ==
  HoverRead =>
    /\ res.out.exc = "none"
    /\ IF frame.plot_data.compare
       THEN CompareReported(frame.plot_data, res.out.val.lines)
       ELSE SingleReported(frame.plot_data, res.out.val.lines)

(* C26, amended: _on_mouse_move never fails and reads no series outside    *)
(* its bounds; over two shots every field has its line, with N/A for a     *)
(* shot whose time sequence is empty; over a single shot whose time        *)
(* sequence is empty only the time line is reported and no field, N/A or   *)
(* otherwise.                                                              *)
C26_HoverTolerates ==
  HoverRead =>
    /\ res.out.exc = "none"
    /\ res.out.val.lines[1] = "<b>Time: " \o Fixed2(res.arg[3], 10000) \o "s</b>"
    /\ IF frame.plot_data.compare
       THEN CompareReported(frame.plot_data, res.out.val.lines)
       ELSE IF frame.plot_data.time = <<>>
       THEN Len(res.out.val.lines) = 1
       ELSE SingleReported(frame.plot_data, res.out.val.lines)

(* the pointer is over an overlay of two shots of which the first has no   *)
(* sample left and the second has, with a field drawn, and the panel shows *)
(* N/A for the first                                                       *)
C26_Witness ==
  /\ HoverRead
  /\ frame.plot_data.compare
  /\ frame.plot_data.time1 = <<>>
  /\ frame.plot_data.time2 # <<>>
  /\ frame.plot_data.fields # <<>>
  /\ res.out.exc = "none"
  /\ \E text2 \in Texts(frame.plot_data.series2, frame.plot_data.fields[1],
                        frame.plot_data.time2) :
       /\ text2 # "N/A"
       /\ res.out.val.lines[2]
            = CompareLine(frame.plot_data.fields[1], "N/A", frame.plot_data.shot1_name,
                          text2, frame.plot_data.shot2_name)

=============================================================================
